---- MODULE Spec2Model ----
(***************************************************************************)
(* Model of the Netcup traffic-throttle monitor (ncControl.py): the status *)
(* store (cached_data, throttle_meta) behind one lock, the reconciliation  *)
(* cycle update_cached_data run by data_collection_loop, and the           *)
(* /api/status reader.                                                     *)
(*                                                                         *)
(* Time is counted in periods of the collection loop (time.sleep(300)):    *)
(* an interval of d periods is 300*d seconds, for which                    *)
(* round(seconds / 3600.0, 2) never meets a tie.  Durations are kept in    *)
(* hundredths of an hour.                                                  *)
(***************************************************************************)
EXTENDS Integers, FiniteSets, Sequences, TLC

\* ---- bounds of the model ------------------------------------------------
\* The clock stops the collection loop after MaxTime periods; two
\* consecutive cycles are between one and MaxStep periods apart.
MaxTime == 3
MaxStep == 1
\* A request handler reads the clock up to MaxDelay steps of 12 seconds
\* after the latest clock reading of the collection loop.
MaxDelay == 2
\* The strings given to mask_ip split into at most MaxParts parts.
MaxParts == 5
\* The configuration lists at most MaxAccounts provider accounts.
MaxAccounts == 2
\* The download manager lists at most MaxDownloaders downloaders.
MaxDownloaders == 2
\* The torrent client holds at most MaxTorrents torrents.
MaxTorrents == 2
\* The bot receives at most MaxUpdates updates.
MaxUpdates == 3

\* ---- program constants --------------------------------------------------
PeriodSeconds == 300
SecondsPerHour == 3600

\* The addresses the provider accounts can report, each string as the list
\* of its parts between the dots (ip.split(".") and ".".join(parts) are the
\* two directions of this representation).  The loop body handles each IP
\* on its own; a second address is what it takes for the handling of one IP
\* to precede or follow an exception raised for another.
IPs == {<<"10", "0", "0", "1">>, <<"172", "16", "5", "2">>}

\* Python's None and a present value, as sequences of length 0 and 1.
None == <<>>
Some(v) == <<v>>

\* ---- the status store ---------------------------------------------------
VARIABLES cached_data, throttle_meta, lock

\* ---- configuration ------------------------------------------------------
\* qb_rss: a QBRSSClient is configured; tg_bot_token, tg_chat_id: the setting
\* is a non-empty value.
VARIABLES qb_rss, tg_bot_token, tg_chat_id

\* ---- update_cached_data / data_collection_loop --------------------------
\* slept: how the call of update_cached_data before the current one ended
\* and the time.sleep calls data_collection_loop made between the two.
VARIABLES pc, new_data, now, todo, slept

\* ---- the outside world and what one cycle did ---------------------------
\* telegramSent: the sendMessage requests posted while handling each IP.
VARIABLES outcome, old_data, old_meta, responses,
          enableCalls, disableCalls, notifyCalls, telegramSent

\* ---- the previous cycle, the last commit --------------------------------
VARIABLES prev_new, prev_responses, committed_meta, lastKnown,
          transition, dispatches

\* ---- the /api/status handler --------------------------------------------
VARIABLES apiPc

\* ---- QBRSSClient (qb_rss.py): the session and one request in progress ----
\* cookie, username and password_plain tell whether the constructor argument
\* is a non-empty string; headers is the set of header names; opener is
\* "unset" until build_opener has run.  requestLog lists what the current
\* call sent and how the server answered.
VARIABLES cookie, username, password_plain, headers, opener,
          httpPc, method, requestLog

storeVars == <<cached_data, throttle_meta, lock>>
cycleVars == <<pc, new_data, now, todo, slept>>
configVars == <<qb_rss, tg_bot_token, tg_chat_id>>
logVars == <<outcome, old_data, old_meta, responses,
             enableCalls, disableCalls, notifyCalls, telegramSent>>
prevVars == <<prev_new, prev_responses>>
ghostVars == <<committed_meta, lastKnown, transition, dispatches>>
\* ---- enable_downloader / disable_downloader, one call in progress --------
\* dlPc is the position in the method, ip and except_categories are its
\* arguments, callTrace lists the calls it has made with their results.
VARIABLES dlPc, dl_ip, except_categories, callTrace

\* ---- the request handlers: webhook, /api/status, the bot's status command
\* response is what a handler has produced and not yet handed over.
VARIABLES response

\* ---- mask_ip on its own: the argument and the value returned --------------
VARIABLES mask_arg, mask_result

\* ---- the snapshot fetch of lines 519-529, one fetch in progress ----------
\* accounts is the configured list; account_i the position of the loop of
\* line 522; vservers what the loop of line 424 has still to read; vps_data
\* the map of the account being read; fetched the local new_data; readLog
\* what the provider answered, in order.
VARIABLES accounts, fetchPc, account_i, vservers, vps_data, fetched, readLog

\* ---- QBRSSClient.set_downloader_enabled, one call in progress -------------
\* key and enabled are the arguments, dlist the answer to the listing of
\* line 192, target what get_qb_info returned, posted the payloads of the
\* modify requests sent, vx_result the value returned.
VARIABLES vxPc, key, enabled, dlist, target, posted, vx_result

vertexVars == <<vxPc, key, enabled, dlist, target, posted, vx_result>>

\* ---- QBittorrentClient.stop_report_delete_all_except_categories ----------
\* torrents is the list the torrent client holds, exclude_set and
\* wait_seconds belong to the call in progress, hashes is its selection,
\* qbLog the requests it has sent, qb_return the value returned and
\* torrents_before the list as the call found it.
VARIABLES torrents, exclude_set, wait_seconds, qbPc, hashes, qbLog, qb_return, torrents_before

torrentVars == <<torrents, exclude_set, wait_seconds, qbPc, hashes, qbLog, qb_return, torrents_before>>

\* ---- telegram_poll_loop ---------------------------------------------------
\* tgQueue holds the updates the bot API has not seen confirmed, tgNext is
\* the id of the next update to arrive; batch is what the loop of line 256
\* has still to go through, polls counts the getUpdates answers that
\* carried updates, pollLog lists what the loop body did for each update.
VARIABLES tg_update_offset, tgQueue, tgNext, batch, pollPc, polls, pollLog

pollVars == <<tg_update_offset, tgQueue, tgNext, batch, pollPc, polls, pollLog>>

\* ---- a request handler at its "with self.lock" -----------------------------
\* readerPc is the position of the handler named reader; blockedBy is who
\* held the lock when the handler reached the statement.
VARIABLES readerPc, reader, blockedBy

readerVars == <<readerPc, reader, blockedBy>>

coreVars == <<cached_data, throttle_meta, lock, configVars, pc, new_data,
              now, todo, slept, outcome, old_data, old_meta, responses,
              enableCalls, disableCalls, notifyCalls, telegramSent, prev_new,
              prev_responses, committed_meta, lastKnown, transition,
              dispatches, apiPc>>
httpVars == <<cookie, username, password_plain, headers, opener,
              httpPc, method, requestLog>>
dlVars == <<dlPc, dl_ip, except_categories, callTrace>>
\* What the monitor's own actions leave alone.
maskVars == <<mask_arg, mask_result>>
fetchVars == <<accounts, fetchPc, account_i, vservers, vps_data, fetched,
               readLog>>
auxVars == <<httpVars, dlVars, response, maskVars, fetchVars, vertexVars,
             torrentVars, pollVars, readerVars>>
\* What the actions of the QBRSSClient leave alone.
exceptHttp == <<coreVars, dlVars, response, maskVars, fetchVars, vertexVars,
                torrentVars, pollVars, readerVars>>
\* What a downloader sequence run on its own leaves alone.
exceptDl == <<coreVars, httpVars, response, maskVars, fetchVars, vertexVars,
              torrentVars, pollVars, readerVars>>
\* What a request handler leaves alone.
exceptHandler == <<coreVars, httpVars, dlVars, maskVars, fetchVars,
                   vertexVars, torrentVars, pollVars, readerVars>>
\* What mask_ip leaves alone.
exceptMask == <<coreVars, httpVars, dlVars, response, fetchVars, vertexVars,
                torrentVars, pollVars, readerVars>>
\* What the snapshot fetch run on its own leaves alone.
exceptFetch == <<coreVars, httpVars, dlVars, response, maskVars, vertexVars,
                 torrentVars, pollVars, readerVars>>
\* What set_downloader_enabled run on its own leaves alone.
exceptVertex == <<coreVars, httpVars, dlVars, response, maskVars, fetchVars,
                  torrentVars, pollVars, readerVars>>
\* What the torrent client run on its own leaves alone.
exceptTorrent == <<coreVars, httpVars, dlVars, response, maskVars, fetchVars,
          vertexVars, pollVars, readerVars>>
\* What the polling loop leaves alone.
exceptPoll == <<coreVars, httpVars, dlVars, response, maskVars, fetchVars,
          vertexVars, torrentVars, readerVars>>
\* What a handler at the lock leaves alone besides the lock.
exceptReader == <<cached_data, throttle_meta, configVars, cycleVars, logVars,
                 prevVars, ghostVars, apiPc, httpVars, dlVars, response, maskVars, fetchVars,
                 vertexVars, torrentVars, pollVars>>
vars == <<coreVars, httpVars, dlVars, response, maskVars, fetchVars,
          vertexVars, torrentVars, pollVars, readerVars>>

\* mask_ip not under observation.
MaskAtRest == mask_arg = <<>> /\ mask_result = None

\* No call of set_downloader_enabled under observation.
VertexAtRest ==
    /\ vxPc = "idle"
    /\ key = ""
    /\ enabled = FALSE
    /\ dlist = None
    /\ target = None
    /\ posted = <<>>
    /\ vx_result = None

\* No torrent client under observation.
TorrentAtRest ==
    /\ torrents = <<>>
    /\ exclude_set = {}
    /\ wait_seconds = 0
    /\ qbPc = "idle"
    /\ hashes = <<>>
    /\ qbLog = <<>>
    /\ qb_return = None
    /\ torrents_before = <<>>

\* No polling thread under observation.
PollAtRest ==
    /\ tg_update_offset = 0
    /\ tgQueue = <<>>
    /\ tgNext = 1
    /\ batch = <<>>
    /\ pollPc = "off"
    /\ polls = 0
    /\ pollLog = <<>>

\* No handler at the lock.
ReaderAtRest ==
    /\ readerPc = "idle"
    /\ reader = ""
    /\ blockedBy = ""

\* No snapshot fetch under observation.
FetchAtRest ==
    /\ accounts = <<>>
    /\ fetchPc = "idle"
    /\ account_i = 0
    /\ vservers = <<>>
    /\ vps_data = <<>>
    /\ fetched = <<>>
    /\ readLog = <<>>

\* No enable or disable sequence under observation.
SequenceAtRest ==
    /\ dlPc = "idle"
    /\ dl_ip = None
    /\ except_categories = FALSE
    /\ callTrace = <<>>

\* No QBRSSClient under observation.
ClientAtRest ==
    /\ cookie = FALSE
    /\ username = FALSE
    /\ password_plain = FALSE
    /\ headers = {}
    /\ opener = "unset"
    /\ httpPc = "unbuilt"
    /\ method = "none"
    /\ requestLog = <<>>

EmptyMap == [ip \in {} |-> TRUE]
NoCalls == [ip \in IPs |-> 0]

\* One entry of a snapshot: {"ipv4IP": ip, "trafficThrottled": bool}.
Payload(ip, throttled) == [ipv4IP |-> ip, trafficThrottled |-> throttled]

\* Every mapping a fetch can return: some of the IPs, each with a flag.
Snapshots ==
    UNION { [S -> BOOLEAN] : S \in SUBSET IPs }

SnapshotOf(flags) == [ip \in DOMAIN flags |-> Payload(ip, flags[ip])]

\* The default metadata entry of setdefault.
DefaultMeta ==
    [current_start |-> None, last_start |-> None, last_end |-> None,
     last_duration_hours |-> None]

\* No entry made for an IP that has none.
SetDefault_Never(metaMap, ip) == metaMap

\* throttle_meta.setdefault(ip, {...}) applied to the whole map.
SetDefault(metaMap, ip) ==
    IF ip \in DOMAIN metaMap THEN metaMap
    ELSE [k \in DOMAIN metaMap \cup {ip} |->
            IF k = ip THEN DefaultMeta ELSE metaMap[k]]

\* self.cached_data.get(ip, {}).get("trafficThrottled")
OldThrottled(data, ip) ==
    IF ip \in DOMAIN data THEN Some(data[ip].trafficThrottled) ELSE None

\* A duration cut off after two decimals instead of rounded.
RoundHours_Truncate(delta) ==
    (100 * delta * PeriodSeconds) \div SecondsPerHour

\* round(delta.total_seconds() / 3600.0, 2), in hundredths of an hour.
RoundHours(delta) ==
    (2 * 100 * delta * PeriodSeconds + SecondsPerHour) \div (2 * SecondsPerHour)

\* The test of line 552 left out: an unknown IP counts as a changed one.
Branch_NoFirst(old_throttled, new_throttled) ==
    IF old_throttled # Some(new_throttled) THEN "changed" ELSE "same"

\* The comparison of line 569 left out: a known IP always counts as changed.
Branch_AlwaysChanged(old_throttled, new_throttled) ==
    IF old_throttled = None THEN "first" ELSE "changed"

\* The branch of lines 552/569/596 taken for one IP.
Branch(old_throttled, new_throttled) ==
    IF old_throttled = None THEN "first"
    ELSE IF old_throttled # Some(new_throttled) THEN "changed"
    ELSE "same"

\* The assignment of lines 563 and 588 left out.
OpenEpisode_Unset(meta, t) == meta

\* meta["current_start"] = now  (lines 563 and 588)
OpenEpisode(meta, t) == [meta EXCEPT !.current_start = Some(t)]

\* The assignment of line 581 left out: the duration is not recorded.
CloseEpisode_NoDuration(meta, t) ==
    IF meta.current_start # None
    THEN [meta EXCEPT !.current_start = None,
                      !.last_start = meta.current_start,
                      !.last_end = Some(t)]
    ELSE [meta EXCEPT !.current_start = None]

\* Lines 578-585: close the open episode, if any, and clear current_start.
CloseEpisode(meta, t) ==
    IF meta.current_start # None
    THEN [current_start |-> None,
          last_start |-> meta.current_start,
          last_end |-> Some(t),
          last_duration_hours |-> Some(RoundHours(t - meta.current_start[1]))]
    ELSE [meta EXCEPT !.current_start = None]

\* A first observation of not-throttled clearing a stale current_start.
MetaAfter_FirstClears(meta, old_throttled, new_throttled, t) ==
    CASE Branch(old_throttled, new_throttled) = "first" ->
            IF new_throttled THEN OpenEpisode(meta, t)
            ELSE [meta EXCEPT !.current_start = None]
      [] Branch(old_throttled, new_throttled) = "changed" ->
            IF new_throttled THEN OpenEpisode(meta, t) ELSE CloseEpisode(meta, t)
      [] OTHER -> meta

\* The metadata entry of one IP after lines 552-597 (binding resolved).
MetaAfter(meta, old_throttled, new_throttled, t) ==
    CASE Branch(old_throttled, new_throttled) = "first" ->
            IF new_throttled THEN OpenEpisode(meta, t) ELSE meta
      [] Branch(old_throttled, new_throttled) = "changed" ->
            IF new_throttled THEN OpenEpisode(meta, t) ELSE CloseEpisode(meta, t)
      [] OTHER -> meta

\* Number of self.enable_downloader(ip) calls made by lines 552-597.
EnableCount(old_throttled, new_throttled) ==
    IF Branch(old_throttled, new_throttled) \in {"first", "changed"}
       /\ ~new_throttled
    THEN 1 ELSE 0

\* Number of self.disable_downloader(...) calls made by lines 552-597.
DisableCount(old_throttled, new_throttled) ==
    IF Branch(old_throttled, new_throttled) \in {"first", "changed"}
       /\ new_throttled
    THEN 1 ELSE 0

\* A notification for the transitions into throttling only.
NotifyCount_ThrottleOnly(old_throttled, new_throttled) ==
    IF Branch(old_throttled, new_throttled) = "changed" /\ new_throttled
    THEN 1 ELSE 0

\* Number of notify_telegram_state_change calls made by lines 552-597.
NotifyCount(old_throttled, new_throttled) ==
    IF Branch(old_throttled, new_throttled) = "changed" THEN 1 ELSE 0

\* A mask that replaces the first part.
mask_ip_First(ip) ==
    IF Len(ip) # 4 THEN ip ELSE [ip EXCEPT ![1] = "***"]

\* A mask for every string of four parts or more.
mask_ip_Long(ip) ==
    IF Len(ip) < 4 THEN ip ELSE [ip EXCEPT ![Len(ip)] = "***"]

\* Lines 117-123: parts = ip.split("."); parts[-1] = "***" when there are
\* four of them.
mask_ip(ip) ==
    IF Len(ip) # 4 THEN ip ELSE [ip EXCEPT ![Len(ip)] = "***"]

\* Lines 222-227, with the texts in English.
state_text(v) ==
    IF v = Some(TRUE) THEN "throttled"
    ELSE IF v = Some(FALSE) THEN "normal"
    ELSE "unknown"

\* Lines 127-145: the requests send_telegram_message posts (a failure of the
\* request is logged and swallowed).
send_telegram_message(chat_id, text) ==
    IF ~tg_bot_token THEN <<>>
    ELSE <<[chat_id |-> chat_id, text |-> text]>>

\* Lines 215-235: the requests notify_telegram_state_change posts.
notify_telegram_state_change(ip, old_throttled, new_throttled) ==
    IF ~tg_bot_token \/ ~tg_chat_id THEN <<>>
    ELSE send_telegram_message(
             "tg_chat_id",
             [kind |-> "state change", ip |-> mask_ip(ip),
              old |-> state_text(old_throttled),
              new |-> state_text(new_throttled)])

NothingSent == [ip \in IPs |-> <<>>]

\* The Telegram settings of lines 48-49: the bot with its default chat, or
\* no bot at all.
TelegramConfigs == {<<TRUE, TRUE>>, <<FALSE, FALSE>>}

\* A monitor without download manager skipping every IP.
GetUserInfoResults_Skip(configured) ==
    IF configured THEN {"resolved", "unresolved", "raise"}
    ELSE {"unresolved"}

\* What self.qb_rss.get_user_info(ip) can do: return a complete binding,
\* return one with a None field, or raise (a transport error, or the
\* AttributeError of calling it on qb_rss = None).
GetUserInfoResults(configured) ==
    IF configured THEN {"resolved", "unresolved", "raise"} ELSE {"raise"}

\* The IPs whose flag differs between two consecutive fetched snapshots.
FlagChanged(before, after) ==
    {ip \in DOMAIN before \cap DOMAIN after :
        before[ip].trafficThrottled # after[ip].trafficThrottled}

\* The IPs present with the same flag in two consecutive fetched snapshots.
FlagKept(before, after) ==
    {ip \in DOMAIN before \cap DOMAIN after :
        before[ip].trafficThrottled = after[ip].trafficThrottled}

MonitorInit ==
    /\ cached_data = EmptyMap
    /\ throttle_meta = EmptyMap
    /\ lock = "free"
    /\ qb_rss \in BOOLEAN
    /\ \E config \in TelegramConfigs :
          tg_bot_token = config[1] /\ tg_chat_id = config[2]
    /\ pc = "sleep"
    /\ new_data = EmptyMap
    /\ now = 0
    /\ todo = {}
    /\ slept = [after |-> "none", seconds |-> <<>>]
    /\ outcome = "none"
    /\ old_data = EmptyMap
    /\ old_meta = EmptyMap
    /\ responses = EmptyMap
    /\ enableCalls = NoCalls
    /\ disableCalls = NoCalls
    /\ notifyCalls = NoCalls
    /\ telegramSent = NothingSent
    /\ prev_new = None
    /\ prev_responses = EmptyMap
    /\ committed_meta = EmptyMap
    /\ lastKnown = EmptyMap
    /\ transition = {}
    /\ dispatches = NoCalls
    /\ apiPc = "idle"

\* The monitor not running, without a download manager.
MonitorAtRest ==
    MonitorInit /\ ~qb_rss /\ ~tg_bot_token /\ ~tg_chat_id

Init ==
    /\ MonitorInit
    /\ ClientAtRest
    /\ SequenceAtRest
    /\ ReaderAtRest
    /\ PollAtRest
    /\ TorrentAtRest
    /\ VertexAtRest
    /\ MaskAtRest
    /\ FetchAtRest
    /\ response = None

\* Lines 516 and 605-606: every exception raised inside update_cached_data
\* is caught and logged there, whatever the way the cycle ended; none
\* reaches data_collection_loop.
Propagates(ended) == FALSE

\* data_collection_loop, lines 613-621: the time.sleep calls, in seconds,
\* between the return of one call of update_cached_data and the next call.
\* The first call follows the start of the thread at once; the except clause
\* of line 619 sleeps 60 seconds and the loop then starts over with the
\* sleep of line 617.
SleepsBefore(ended) ==
    IF ended = "none" THEN <<>>
    ELSE IF Propagates(ended) THEN <<60, PeriodSeconds>>
    ELSE <<PeriodSeconds>>

\* Lines 519-530: fetch the snapshot of all accounts, then read the clock.
\* transition and dispatches follow the fetched snapshots: an IP whose flag
\* changed since the previous fetch starts a transition with no dispatch yet,
\* an IP that kept its flag keeps its count, any other IP has no transition.
Fetch ==
    /\ pc = "sleep"
    /\ \E flags \in Snapshots, d \in 1..MaxStep :
          /\ now + d <= MaxTime
          /\ new_data' = SnapshotOf(flags)
          /\ now' = now + d
    /\ pc' = "fetched"
    /\ slept' = [after |-> outcome, seconds |-> SleepsBefore(outcome)]
    /\ prev_new' = IF outcome = "none" THEN None ELSE Some(new_data)
    /\ prev_responses' = responses
    /\ LET changed == IF outcome = "none" THEN {}
                      ELSE FlagChanged(new_data, new_data')
           kept == IF outcome = "none" THEN {}
                   ELSE FlagKept(new_data, new_data')
       IN /\ transition' = changed \cup (transition \cap kept)
          /\ dispatches' = [ip \in IPs |->
                              IF ip \in transition \cap kept
                              THEN dispatches[ip] ELSE 0]
    /\ todo' = {}
    /\ outcome' = "fetched"
    /\ old_data' = cached_data
    /\ old_meta' = throttle_meta
    /\ responses' = EmptyMap
    /\ enableCalls' = NoCalls
    /\ disableCalls' = NoCalls
    /\ notifyCalls' = NoCalls
    /\ telegramSent' = NothingSent
    /\ UNCHANGED <<storeVars, configVars, committed_meta, lastKnown, apiPc,
                   auxVars>>

\* Line 532: with self.lock, entering the critical section.
Acquire ==
    /\ pc = "fetched"
    /\ lock = "free"
    /\ lock' = "cycle"
    /\ pc' = "locked"
    /\ todo' = DOMAIN new_data
    /\ outcome' = "running"
    /\ old_data' = cached_data
    /\ old_meta' = throttle_meta
    /\ UNCHANGED <<cached_data, throttle_meta, configVars, new_data, now,
                   slept, responses, enableCalls, disableCalls, notifyCalls,
                   telegramSent,
                   prevVars, ghostVars, apiPc,
                   auxVars>>

\* The responses of the download manager and the torrent client to the calls
\* made for one IP: what get_user_info did, and whether the enable or
\* disable sequence met a failure (which the sequence logs and swallows).
Response(user_info, call) == [user_info |-> user_info, call |-> call]

Record(log, ip, r) ==
    [k \in DOMAIN log \cup {ip} |-> IF k = ip THEN r ELSE log[k]]

\* Lines 534-597: the loop body for one IP of new_data.
ProcessIP(ip) ==
    /\ pc = "locked"
    /\ ip \in todo
    /\ LET new_throttled == new_data[ip].trafficThrottled
           old_throttled == OldThrottled(cached_data, ip)
           withEntry == SetDefault(throttle_meta, ip)
           enables == EnableCount(old_throttled, new_throttled)
           disables == DisableCount(old_throttled, new_throttled)
       IN \E r \in GetUserInfoResults(qb_rss) :
            CASE r = "raise" ->
                    \* the exception leaves the with block and is logged by
                    \* the except clause of line 605
                    /\ responses' = Record(responses, ip, Response(r, "none"))
                    /\ throttle_meta' = withEntry
                    /\ lock' = "free"
                    /\ pc' = "sleep"
                    /\ outcome' = "aborted"
                    /\ UNCHANGED <<todo, enableCalls, disableCalls,
                                   notifyCalls, telegramSent, dispatches>>
              [] r = "unresolved" ->
                    \* line 548: continue
                    /\ responses' = Record(responses, ip, Response(r, "none"))
                    /\ throttle_meta' = withEntry
                    /\ todo' = todo \ {ip}
                    /\ UNCHANGED <<lock, pc, outcome, enableCalls,
                                   disableCalls, notifyCalls, telegramSent,
                                   dispatches>>
              [] OTHER ->
                    /\ \E call \in IF enables + disables > 0
                                    THEN {"ok", "failed"} ELSE {"none"} :
                          responses' = Record(responses, ip, Response(r, call))
                    /\ throttle_meta' =
                         [withEntry EXCEPT ![ip] =
                            MetaAfter(@, old_throttled, new_throttled, now)]
                    /\ enableCalls' = [enableCalls EXCEPT ![ip] = @ + enables]
                    /\ disableCalls' = [disableCalls EXCEPT ![ip] = @ + disables]
                    /\ notifyCalls' =
                         [notifyCalls EXCEPT ![ip] =
                            @ + NotifyCount(old_throttled, new_throttled)]
                    /\ telegramSent' =
                         [telegramSent EXCEPT ![ip] =
                            IF NotifyCount(old_throttled, new_throttled) = 1
                            THEN @ \o notify_telegram_state_change(
                                         ip, old_throttled, Some(new_throttled))
                            ELSE @]
                    /\ dispatches' =
                         [dispatches EXCEPT ![ip] =
                            IF ip \in transition
                            THEN @ + enables + disables ELSE @]
                    /\ todo' = todo \ {ip}
                    /\ UNCHANGED <<lock, pc, outcome>>
    /\ UNCHANGED <<cached_data, configVars, new_data, now, slept, old_data,
                   old_meta,
                   prevVars, committed_meta, lastKnown, transition, apiPc,
                   auxVars>>

\* Lines 599-603: replace the status map, leave the critical section.
Commit ==
    /\ pc = "locked"
    /\ todo = {}
    /\ cached_data' = new_data
    /\ lock' = "free"
    /\ pc' = "sleep"
    /\ outcome' = "committed"
    /\ committed_meta' = throttle_meta
    /\ lastKnown' =
         [ip \in DOMAIN lastKnown \cup DOMAIN new_data |->
            IF ip \in DOMAIN new_data THEN new_data[ip].trafficThrottled
            ELSE lastKnown[ip]]
    /\ UNCHANGED <<throttle_meta, configVars, new_data, now, todo, slept,
                   old_data,
                   old_meta, responses, enableCalls, disableCalls, notifyCalls,
                   telegramSent,
                   prevVars, transition, dispatches, apiPc,
                   auxVars>>

\* api_status, line 350: with self.lock.
ApiAcquire ==
    /\ apiPc = "idle"
    /\ lock = "free"
    /\ lock' = "api"
    /\ apiPc' = "locked"
    /\ UNCHANGED <<cached_data, throttle_meta, configVars, cycleVars, logVars,
                   prevVars, ghostVars, auxVars>>

\* api_status, lines 351-354: copy both maps, leave the critical section.
ApiSnapshot ==
    /\ apiPc = "locked"
    /\ lock' = "free"
    /\ apiPc' = "idle"
    /\ UNCHANGED <<cached_data, throttle_meta, configVars, cycleVars, logVars,
                   prevVars, ghostVars, auxVars>>

Next ==
    \/ Fetch
    \/ Acquire
    \/ \E ip \in IPs : ProcessIP(ip)
    \/ Commit
    \/ ApiAcquire
    \/ ApiSnapshot

Spec == Init /\ [][Next]_vars

TypeOK ==
    /\ lock \in {"free", "cycle", "api"}
    /\ pc \in {"sleep", "fetched", "locked"}
    /\ DOMAIN cached_data \subseteq IPs
    /\ DOMAIN throttle_meta \subseteq IPs
    /\ outcome \in {"none", "fetched", "running", "committed", "aborted"}

\* ---- QBRSSClient: construction and the requests with re-login ------------

\* One answer to a request: an exception out of opener.open (HTTP 401/403
\* and transport errors alike), or a decoded JSON body, of which
\* _looks_like_auth_failure reads whether it is a dict, whether its "success"
\* is True and whether its message holds one of the keywords.
Reply(status, dict, success, keyword) ==
    [status |-> status, dict |-> dict, success |-> success,
     keyword |-> keyword]

ServerReplies ==
    {Reply("raise", FALSE, FALSE, FALSE), Reply("body", FALSE, FALSE, FALSE)}
      \cup {Reply("body", TRUE, s, k) : s, k \in BOOLEAN}

\* self._opener.open(...): without the attribute the call raises before
\* anything is sent.
RawReplies(op) ==
    IF op = "unset" THEN {Reply("no_opener", FALSE, FALSE, FALSE)}
    ELSE ServerReplies

Raises(reply) == reply.status # "body"

\* Lines 64-80.
looks_like_auth_failure(reply) ==
    IF ~reply.dict THEN FALSE
    ELSE IF reply.success THEN FALSE
    ELSE reply.keyword

can_reauth == username /\ password_plain

Attempt(req, reply) == [req |-> req, reply |-> reply]

\* The retry calling the retrying request again instead of the raw one.
RetryOutcome_Again(reply) ==
    IF Raises(reply) \/ looks_like_auth_failure(reply) THEN "reauth"
    ELSE "returned"

\* Lines 129, 134, 147, 152: return self._http_..._raw(...), whatever the
\* answer is.
RetryOutcome(reply) == IF Raises(reply) THEN "raised" ELSE "returned"

\* __init__, lines 26-42.  Without a cookie no opener is built, and the
\* login of line 42 raises AttributeError out of the constructor.
Construct ==
    /\ httpPc = "unbuilt"
    /\ \E c, u, pw \in BOOLEAN :
          /\ cookie' = c
          /\ username' = u
          /\ password_plain' = pw
          /\ headers' = IF c THEN {"Accept", "Cookie"} ELSE {"Accept"}
          /\ opener' = IF c THEN "plain" ELSE "unset"
          /\ IF ~c /\ u /\ pw
             THEN /\ requestLog' =
                       <<Attempt("login",
                                 Reply("no_opener", FALSE, FALSE, FALSE))>>
                  /\ httpPc' = "failed"
             ELSE /\ requestLog' = <<>>
                  /\ httpPc' = "idle"
    /\ UNCHANGED <<method, exceptHttp>>

\* A caller enters _http_get_json or _http_post_json.
HttpCall ==
    /\ httpPc \in {"idle", "returned", "raised"}
    /\ \E m \in {"GET", "POST"} : method' = m
    /\ requestLog' = <<>>
    /\ httpPc' = "request"
    /\ UNCHANGED <<cookie, username, password_plain, headers, opener,
                   exceptHttp>>

\* Lines 123-136 / 142-154 up to the first answer.
FirstAttempt ==
    /\ httpPc = "request"
    /\ \E r \in RawReplies(opener) :
          /\ requestLog' = Append(requestLog, Attempt("original", r))
          /\ httpPc' = IF Raises(r)
                       THEN (IF can_reauth THEN "reauth" ELSE "raised")
                       ELSE IF looks_like_auth_failure(r) /\ can_reauth
                            THEN "reauth"
                            ELSE "returned"
    /\ UNCHANGED <<cookie, username, password_plain, headers, opener, method,
                   exceptHttp>>

\* _reauth_and_retry_prepare, lines 85-100: drop the Cookie header, build a
\* fresh jar and opener, log in once; the answer of the login is not looked
\* at, its exception is not caught.
Reauth ==
    /\ httpPc = "reauth"
    /\ headers' = headers \ {"Cookie"}
    /\ cookie' = FALSE
    /\ opener' = "jar"
    /\ \E r \in RawReplies(opener') :
          /\ requestLog' = Append(requestLog, Attempt("login", r))
          /\ httpPc' = IF Raises(r) THEN "raised" ELSE "retry"
    /\ UNCHANGED <<username, password_plain, method, exceptHttp>>

\* The second raw request of lines 129, 134, 147, 152.
Retry ==
    /\ httpPc = "retry"
    /\ \E r \in RawReplies(opener) :
          /\ requestLog' = Append(requestLog, Attempt("original", r))
          /\ httpPc' = RetryOutcome(r)
    /\ UNCHANGED <<cookie, username, password_plain, headers, opener, method,
                   exceptHttp>>

HttpInit ==
    /\ MonitorAtRest
    /\ ClientAtRest
    /\ SequenceAtRest
    /\ ReaderAtRest
    /\ PollAtRest
    /\ TorrentAtRest
    /\ VertexAtRest
    /\ MaskAtRest
    /\ FetchAtRest
    /\ response = None

HttpNext ==
    \/ Construct
    \/ HttpCall
    \/ FirstAttempt
    \/ Reauth
    \/ Retry

SpecHttp == HttpInit /\ [][HttpNext]_vars

\* ---- enable_downloader and disable_downloader, call by call -------------

\* One call: the method that made it, what it called, with which argument,
\* and whether the call returned or raised.
Call(by, call, arg, result) ==
    [by |-> by, call |-> call, arg |-> arg, result |-> result]

Results == {"ok", "raise"}

\* QBittorrentClient.__init__, qb_client.py lines 22-29: Client(...) and
\* auth_log_in(); an exception of either becomes a ConnectionError.
ConnectRuns ==
    {[result |-> "raise",
      requests |-> <<Call("QBittorrentClient", "Client", "", "raise")>>]}
    \cup
    {[result |-> r,
      requests |-> <<Call("QBittorrentClient", "Client", "", "ok"),
                     Call("QBittorrentClient", "auth_log_in", "", r)>>] :
       r \in Results}

\* pause_all, qb_client.py lines 119-155: the requests it sends and how it
\* ends.  An exception of any request leaves the method; with no torrent in
\* a downloading state nothing is sent after the listing.
PauseAllRuns ==
    {[result |-> "raise", requests |-> <<Call("pause_all", "torrents_info", "", "raise")>>],
     [result |-> "ok", requests |-> <<Call("pause_all", "torrents_info", "", "ok")>>]}
    \cup
    {[result |-> "raise",
      requests |-> <<Call("pause_all", "torrents_info", "", "ok"),
                     Call("pause_all", "torrents_reannounce", "", "raise")>>]}
    \cup
    {[result |-> r,
      requests |-> <<Call("pause_all", "torrents_info", "", "ok"),
                     Call("pause_all", "torrents_reannounce", "", "ok"),
                     Call("pause_all", "torrents_stop", "", r)>>] : r \in Results}

\* stop_report_delete_all_except_categories, qb_client.py lines 40-116: an
\* exception of the listing leaves the method, those of reannounce and stop
\* are logged; time.sleep(wait_seconds) lies between the two.
StopReportRuns ==
    {[result |-> "raise", requests |-> <<Call("stop_report", "torrents_info", "", "raise")>>],
     [result |-> "ok", requests |-> <<Call("stop_report", "torrents_info", "", "ok")>>]}
    \cup
    {[result |-> "ok",
      requests |-> <<Call("stop_report", "torrents_info", "", "ok"),
                     Call("stop_report", "torrents_reannounce", "", r1),
                     Call("stop_report", "time.sleep", "5", "ok"),
                     Call("stop_report", "torrents_stop", "", r2)>>] : r1, r2 \in Results}

\* The failure of the remote call ending the method.
AfterRemote_Abort(result) == IF result = "raise" THEN "done" ELSE "connect"

\* Lines 499-503: the except clause logs, the method goes on.
AfterRemote(result) == "connect"

\* Lines 505-513: a ConnectionError of the constructor leaves the try for
\* the except clause of line 512; otherwise line 506 chooses the branch.
AfterConnect(result, excluding) ==
    IF result = "raise" THEN "done"
    ELSE IF excluding THEN "except" ELSE "pause"

\* An exception of pause_all logged where it is raised.
AfterPauseAll_Logged(result) == "sleep"

\* Lines 509-513: an exception of pause_all leaves the try for the except
\* clause of line 512, passing time.sleep(5) and delete_all.
AfterPauseAll(result) == IF result = "raise" THEN "done" ELSE "sleep"

\* A cycle calls self.enable_downloader(ip) or self.disable_downloader(ip,
\* url, username, password, self.bqb_except_categories_list).
SequenceStart ==
    /\ dlPc \in {"idle", "done"}
    /\ qb_rss
    /\ \E ip \in IPs : dl_ip' = Some(ip)
    /\ \/ dlPc' = "enable" /\ except_categories' = FALSE
       \/ dlPc' = "remote" /\ \E b \in BOOLEAN : except_categories' = b
    /\ callTrace' = <<>>
    /\ UNCHANGED exceptDl

\* enable_downloader, lines 479-487.
EnableRemote ==
    /\ dlPc = "enable"
    /\ IF ~qb_rss THEN callTrace' = callTrace
       ELSE \E r \in Results :
              callTrace' =
                Append(callTrace, Call("enable_downloader", "enable_downloader", dl_ip[1], r))
    /\ dlPc' = "done"
    /\ UNCHANGED <<dl_ip, except_categories, exceptDl>>

\* disable_downloader, lines 499-503.
DisableRemote ==
    /\ dlPc = "remote"
    /\ IF ~qb_rss THEN callTrace' = callTrace /\ dlPc' = "connect"
       ELSE \E r \in Results :
              /\ callTrace' =
                   Append(callTrace, Call("disable_downloader", "pause_downloader", dl_ip[1], r))
              /\ dlPc' = AfterRemote(r)
    /\ UNCHANGED <<dl_ip, except_categories, exceptDl>>

\* Line 506: QBittorrentClient(url, username, password) logs in, or raises
\* ConnectionError into the except clause of line 512.
Connect ==
    /\ dlPc = "connect"
    /\ \E run \in ConnectRuns :
          /\ callTrace' =
               Append(callTrace,
                      Call("disable_downloader", "QBittorrentClient", "",
                           run.result))
                 \o run.requests
          /\ dlPc' = AfterConnect(run.result, except_categories)
    /\ UNCHANGED <<dl_ip, except_categories, exceptDl>>

\* Line 507.
StopReport ==
    /\ dlPc = "except"
    /\ \E run \in StopReportRuns :
          callTrace' =
            Append(callTrace,
                   Call("disable_downloader", "stop_report_delete_all_except_categories",
                        "qb_except_categories_list", run.result))
              \o run.requests
    /\ dlPc' = "done"
    /\ UNCHANGED <<dl_ip, except_categories, exceptDl>>

\* Line 509.
PauseAll ==
    /\ dlPc = "pause"
    /\ \E run \in PauseAllRuns :
          /\ callTrace' =
               Append(callTrace, Call("disable_downloader", "pause_all", "", run.result))
                 \o run.requests
          /\ dlPc' = AfterPauseAll(run.result)
    /\ UNCHANGED <<dl_ip, except_categories, exceptDl>>

\* Line 510.
Sleep5 ==
    /\ dlPc = "sleep"
    /\ callTrace' = Append(callTrace, Call("disable_downloader", "time.sleep", "5", "ok"))
    /\ dlPc' = "delete"
    /\ UNCHANGED <<dl_ip, except_categories, exceptDl>>

\* Line 511 and qb_client.py lines 157-163.
DeleteAll ==
    /\ dlPc = "delete"
    /\ \E r \in Results :
          callTrace' =
            callTrace \o
              <<Call("disable_downloader", "delete_all", "delete_files=True", r),
                Call("delete_all", "torrents.delete", "hashes=all, delete_files=True", r)>>
    /\ dlPc' = "done"
    /\ UNCHANGED <<dl_ip, except_categories, exceptDl>>

SequenceInit ==
    /\ MonitorInit
    /\ qb_rss
    /\ ~tg_bot_token
    /\ ClientAtRest
    /\ SequenceAtRest
    /\ ReaderAtRest
    /\ PollAtRest
    /\ TorrentAtRest
    /\ VertexAtRest
    /\ MaskAtRest
    /\ FetchAtRest
    /\ response = None

SequenceNext ==
    \/ SequenceStart
    \/ EnableRemote
    \/ DisableRemote
    \/ Connect
    \/ StopReport
    \/ PauseAll
    \/ Sleep5
    \/ DeleteAll

SpecSequence == SequenceInit /\ [][SequenceNext]_vars

\* ---- the request handlers ------------------------------------------------

\* The value of request.args.get('ipv4IP'): no such parameter, the empty
\* string, or an address.
Queries == {None, Some(<<"">>)} \cup {Some(ip) : ip \in IPs}

\* A test for the missing parameter only.
Falsy_NoneOnly(q) == q = None

\* Python's "not ipv4_ip": None and the empty string are falsy.
Falsy(q) == q = None \/ q = Some(<<"">>)

\* The clock readings a handler can make, in seconds.
RequestTimes == {now * PeriodSeconds + 12 * k : k \in 0..MaxDelay}

\* A duration in seconds cut off after two decimals of an hour.
RoundSeconds_Truncate(seconds) == (100 * seconds) \div SecondsPerHour

\* round(delta.total_seconds() / 3600.0, 2), in hundredths of an hour.
RoundSeconds(seconds) ==
    (2 * 100 * seconds + SecondsPerHour) \div (2 * SecondsPerHour)

\* format_datetime, lines 359-364: None stays None, a datetime becomes a
\* string showing it.
format_datetime(dt) ==
    IF dt = None THEN None ELSE Some([formatted |-> dt[1]])

\* meta_snapshot.get(ip, {...}), lines 368-376.
MetaOrDefault(metaMap, ip) ==
    IF ip \in DOMAIN metaMap THEN metaMap[ip] ELSE DefaultMeta

\* Lines 377-402: the entry of one IP in the answer of /api/status, the
\* handler having read the clock at clock seconds.
StatusEntry(ip, payload, meta, clock) ==
    LET traffic_throttled == payload.trafficThrottled
        current_start == format_datetime(meta.current_start)
    IN [ipv4IP |-> mask_ip(ip),
        trafficThrottled |-> traffic_throttled,
        currentThrottleStart |-> current_start,
        currentThrottleDurationHours |->
            IF traffic_throttled /\ current_start # None
            THEN Some(RoundSeconds(
                        clock - meta.current_start[1] * PeriodSeconds))
            ELSE None,
        lastThrottleStart |-> format_datetime(meta.last_start),
        lastThrottleRecover |-> format_datetime(meta.last_end),
        lastThrottleDurationHours |-> meta.last_duration_hours]

\* What a handler hands over, together with the request it answers.
Answer(handler, request, status, body) ==
    [handler |-> handler, request |-> request, status |-> status,
     body |-> body]

\* webhook, lines 297-315.  The parameter is tested before the lock is
\* taken; the lookup happens inside "with self.lock".
Webhook ==
    /\ response = None
    /\ \E q \in Queries :
          IF Falsy(q)
          THEN response' =
                 Some(Answer("webhook", [ipv4IP |-> q], 400, "error"))
          ELSE /\ lock = "free"
               /\ response' =
                    Some(IF q[1] \in DOMAIN cached_data
                         THEN Answer("webhook", [ipv4IP |-> q], 200,
                                     cached_data[q[1]])
                         ELSE Answer("webhook", [ipv4IP |-> q], 404,
                                     "error"))
    /\ UNCHANGED exceptHandler

\* api_status, lines 340-405: both maps are copied inside "with self.lock",
\* the clock is read and the answer built after it.
ApiStatus ==
    /\ response = None
    /\ lock = "free"
    /\ \E clock \in RequestTimes :
          response' =
            Some(Answer("api_status", [clock |-> clock], 200,
                        [ip \in DOMAIN cached_data |->
                           StatusEntry(ip, cached_data[ip],
                                       MetaOrDefault(throttle_meta, ip),
                                       clock)]))
    /\ UNCHANGED exceptHandler

\* handle_tg_status_command, lines 187-213, called by telegram_poll_loop
\* (started at line 75 with a bot token) for a message of the default chat
\* (line 265): the items are copied inside "with self.lock".
TgStatusCommand ==
    /\ response = None
    /\ tg_bot_token
    /\ tg_chat_id
    /\ lock = "free"
    /\ response' =
         Some(Answer("tg_status", [text |-> "/status"], 200,
                send_telegram_message(
                  "tg_chat_id",
                  IF DOMAIN cached_data = {}
                  THEN [kind |-> "no data"]
                  ELSE [kind |-> "summary",
                        total |-> Cardinality(DOMAIN cached_data),
                        throttled |->
                          Cardinality({ip \in DOMAIN cached_data :
                                         cached_data[ip].trafficThrottled}),
                        lines |->
                          [ip \in DOMAIN cached_data |->
                             [ip |-> mask_ip(ip),
                              state |->
                                state_text(
                                  Some(cached_data[ip].trafficThrottled))]]])))
    /\ UNCHANGED exceptHandler

\* The answer leaves the process.
Deliver ==
    /\ response # None
    /\ response' = None
    /\ UNCHANGED exceptHandler

\* The orders in which the loop of line 534 can meet the IPs of a snapshot.
Orders(S) ==
    {order \in [1..Cardinality(S) -> S] :
        \A i, j \in 1..Cardinality(S) : order[i] = order[j] => i = j}

\* Lines 539-597 for one IP whose get_user_info returned: the metadata map
\* afterwards.
MetaAfterIP(metaMap, data, new, ip, r, t) ==
    IF r = "resolved"
    THEN [SetDefault(metaMap, ip) EXCEPT ![ip] =
            MetaAfter(@, OldThrottled(data, ip), new[ip].trafficThrottled, t)]
    ELSE SetDefault(metaMap, ip)

\* Lines 539-597 for one IP whose get_user_info returned: the messages
\* posted to Telegram.
SentForIP(data, new, ip, r) ==
    IF r = "resolved"
       /\ NotifyCount(OldThrottled(data, ip), new[ip].trafficThrottled) = 1
    THEN notify_telegram_state_change(ip, OldThrottled(data, ip),
                                      Some(new[ip].trafficThrottled))
    ELSE <<>>

\* Lines 534-597 from the IP order[i] on: the metadata map and the messages
\* at the end of the loop, and whether an exception of get_user_info ended
\* it early.
RECURSIVE RunLoop(_, _, _, _, _, _, _, _)
RunLoop(metaMap, sent, order, i, resp, data, new, t) ==
    IF i > Len(order)
    THEN [meta |-> metaMap, sent |-> sent, aborted |-> FALSE]
    ELSE IF resp[order[i]] = "raise"
         THEN [meta |-> SetDefault(metaMap, order[i]), sent |-> sent,
               aborted |-> TRUE]
         ELSE RunLoop(MetaAfterIP(metaMap, data, new, order[i],
                                  resp[order[i]], t),
                      [sent EXCEPT ![order[i]] =
                         SentForIP(data, new, order[i], resp[order[i]])],
                      order, i + 1, resp, data, new, t)

\* The lock made to stay with a cycle that ends by an exception.
LockAfterCycle_Kept(aborted) == IF aborted THEN "cycle" ELSE "free"

\* Line 532: the with statement releases the lock when the block is left,
\* by its end or by an exception.
LockAfterCycle(aborted) == "free"

\* update_cached_data, lines 519-532, in one step: fetch the snapshot, read
\* the clock, enter "with self.lock".  The per-cycle records of the stepwise
\* cycle above are not kept here.
EnterCycle ==
    /\ response = None
    /\ pc = "sleep"
    /\ lock = "free"
    /\ \E flags \in Snapshots, d \in 1..MaxStep :
          /\ now + d <= MaxTime
          /\ now' = now + d
          /\ new_data' = SnapshotOf(flags)
    /\ lock' = "cycle"
    /\ pc' = "locked"
    /\ UNCHANGED <<cached_data, throttle_meta, configVars, todo, slept,
                   logVars, prevVars, ghostVars, apiPc, auxVars>>

\* update_cached_data, lines 534-606, in one step: the loop over the IPs
\* and the commit, or the exception that ends both; the lock is released
\* and the local new_data is gone either way.
LeaveCycle ==
    /\ response = None
    /\ pc = "locked"
    /\ \E order \in Orders(DOMAIN new_data),
          resp \in [DOMAIN new_data -> GetUserInfoResults(qb_rss)] :
          LET run == RunLoop(throttle_meta, NothingSent, order, 1, resp,
                             cached_data, new_data, now)
          IN /\ throttle_meta' = run.meta
             /\ telegramSent' = run.sent
             /\ cached_data' = IF run.aborted THEN cached_data ELSE new_data
             /\ lock' = LockAfterCycle(run.aborted)
    /\ new_data' = EmptyMap
    /\ pc' = "sleep"
    /\ UNCHANGED <<configVars, now, todo, slept, outcome, old_data, old_meta,
                   responses, enableCalls, disableCalls, notifyCalls,
                   prevVars, ghostVars, apiPc, auxVars>>

HandlersNext ==
    \/ EnterCycle
    \/ LeaveCycle
    \/ Webhook
    \/ ApiStatus
    \/ TgStatusCommand
    \/ Deliver

SpecHandlers == Init /\ [][HandlersNext]_vars

\* ---- mask_ip on strings of every shape -----------------------------------

\* What can stand between two dots: nothing, digits, other text.
Parts == {"", "1", "ab"}

\* The strings of at most MaxParts parts ("".split(".") has one part).
Strings == UNION {[1..n -> Parts] : n \in 1..MaxParts}

\* A caller passes a string to mask_ip.
MaskCall ==
    /\ mask_result = None
    /\ mask_result' = Some(mask_ip(mask_arg))
    /\ UNCHANGED <<mask_arg, exceptMask>>

\* The caller takes the value; another string is passed next.
MaskReturn ==
    /\ mask_result # None
    /\ mask_result' = None
    /\ mask_arg' \in Strings
    /\ UNCHANGED exceptMask

MaskInit ==
    /\ MonitorAtRest
    /\ ClientAtRest
    /\ SequenceAtRest
    /\ ReaderAtRest
    /\ PollAtRest
    /\ TorrentAtRest
    /\ VertexAtRest
    /\ FetchAtRest
    /\ response = None
    /\ mask_arg \in Strings
    /\ mask_result = None

MaskNext ==
    \/ MaskCall
    \/ MaskReturn

SpecMask == MaskInit /\ [][MaskNext]_vars

\* ---- the snapshot fetch, account by account and server by server ----------

\* The servers of the provider; each has one address of its own.
Servers == {"v1", "v2"}

AddressOf(server) ==
    IF server = "v1" THEN <<"10", "0", "0", "1">> ELSE <<"172", "16", "5", "2">>

\* The lists of servers an account can hold, none of them twice.
ServerLists ==
    {<<>>} \cup {<<v>> : v \in Servers}
      \cup {list \in Servers \X Servers : list[1] # list[2]}

\* One entry of the accounts list of the configuration: whether it has both
\* 'loginname' and 'password', and the servers the provider lists for it.
Account(complete, servers) == [complete |-> complete, servers |-> servers]

ServersIn(list) == {list[i] : i \in DOMAIN list}

\* The configured lists of one to MaxAccounts accounts; a server belongs to
\* one account.
AccountLists ==
    {list \in UNION {[1..n -> {Account(c, l) : c \in BOOLEAN,
                                               l \in ServerLists}] :
                       n \in 1..MaxAccounts} :
        \A i, j \in DOMAIN list :
            i # j => ServersIn(list[i].servers)
                       \cap ServersIn(list[j].servers) = {}}

\* What the provider answers: for an account, the listing of its servers or
\* an exception ("listed", "account_raise"); for a server, an exception of
\* get_vserver_information, no interface, an interface whose attributes
\* raise, or an interface with its ipv4IP and trafficThrottled attributes.
Read(info, ipv4IP, trafficThrottled) ==
    [info |-> info, ipv4IP |-> ipv4IP, trafficThrottled |-> trafficThrottled]

NoValue == [list |-> FALSE, value |-> None]

\* The values of interface.ipv4IP: a list (the address alone, with an empty
\* string before it, or nothing), one string, or None.
Ipv4Values(address) ==
    {[list |-> TRUE, value |-> <<address>>],
     [list |-> TRUE, value |-> <<<<"">>, address>>],
     [list |-> TRUE, value |-> <<>>],
     [list |-> FALSE, value |-> Some(address)],
     NoValue}

\* The values of interface.trafficThrottled; None for a missing attribute.
FlagValues == {Some(TRUE), Some(FALSE), None}

ServerReads(server) ==
    {Read(info, NoValue, None) :
        info \in {"raise", "no_interfaces", "attr_error"}}
      \cup {Read("interface", v, f) :
              v \in Ipv4Values(AddressOf(server)), f \in FlagValues}

\* Lines 439-443: the addresses stored for one interface.
StoredIps(read) ==
    LET ipv4_ips == IF read.ipv4IP.list THEN read.ipv4IP.value
                    ELSE IF Falsy(read.ipv4IP.value) THEN <<>>
                    ELSE <<read.ipv4IP.value[1]>>
    IN {ipv4_ips[i] : i \in {i \in DOMAIN ipv4_ips : ipv4_ips[i] # <<"">>}}

\* Lines 426-464 for one server: vps_data afterwards.
AfterRead(data, read) ==
    IF read.info # "interface" THEN data
    ELSE [ip \in DOMAIN data \cup StoredIps(read) |->
            IF ip \in StoredIps(read)
            THEN Payload(ip, read.trafficThrottled = Some(TRUE))
            ELSE data[ip]]

\* new_data.update(account_data), line 529.
Update(data, account_data) ==
    [ip \in DOMAIN data \cup DOMAIN account_data |->
        IF ip \in DOMAIN account_data THEN account_data[ip] ELSE data[ip]]

\* A failing server ending the loop over the servers of its account.
RestAfter_Abort(read, servers) ==
    IF read.info = "raise" THEN <<>> ELSE Tail(servers)

\* Lines 460 and 464: continue with the next server.
RestAfter(read, servers) == Tail(servers)

LogEntry(account, server, read) ==
    [account |-> account, server |-> server, read |-> read]

\* Line 519: new_data = {}.
FetchBegin ==
    /\ fetchPc \in {"idle", "done"}
    /\ fetched' = EmptyMap
    /\ account_i' = 1
    /\ vservers' = <<>>
    /\ vps_data' = EmptyMap
    /\ readLog' = <<>>
    /\ fetchPc' = "accounts"
    /\ UNCHANGED <<accounts, exceptFetch>>

\* Lines 522-528 and 411-421: an account without loginname or password is
\* skipped; for the others the client is built and the servers are listed.
\* An exception of either ends get_vps_info_from_account at line 466 with
\* an empty vps_data.
NextAccount ==
    /\ fetchPc = "accounts"
    /\ account_i <= Len(accounts)
    /\ IF ~accounts[account_i].complete
       THEN /\ account_i' = account_i + 1
            /\ UNCHANGED <<fetchPc, vservers, vps_data, readLog>>
       ELSE \E opened \in {"listed", "account_raise"} :
              /\ readLog' = Append(readLog,
                                   LogEntry(account_i, "",
                                            Read(opened, NoValue, None)))
              /\ vps_data' = EmptyMap
              /\ IF opened = "listed"
                 THEN /\ vservers' = accounts[account_i].servers
                      /\ fetchPc' = "servers"
                      /\ UNCHANGED account_i
                 ELSE /\ account_i' = account_i + 1
                      /\ UNCHANGED <<fetchPc, vservers>>
    /\ UNCHANGED <<accounts, fetched, exceptFetch>>

\* Lines 424-464: one server of the account.
ReadServer ==
    /\ fetchPc = "servers"
    /\ vservers # <<>>
    /\ \E read \in ServerReads(Head(vservers)) :
          /\ vps_data' = AfterRead(vps_data, read)
          /\ vservers' = RestAfter(read, vservers)
          /\ readLog' = Append(readLog,
                               LogEntry(account_i, Head(vservers), read))
    /\ UNCHANGED <<accounts, fetchPc, account_i, fetched, exceptFetch>>

\* Lines 469 and 529: the account's map is returned and merged.
AccountReturn ==
    /\ fetchPc = "servers"
    /\ vservers = <<>>
    /\ fetched' = Update(fetched, vps_data)
    /\ account_i' = account_i + 1
    /\ fetchPc' = "accounts"
    /\ UNCHANGED <<accounts, vservers, vps_data, readLog, exceptFetch>>

\* Line 530: the loop over the accounts is over.
FetchEnd ==
    /\ fetchPc = "accounts"
    /\ account_i > Len(accounts)
    /\ fetchPc' = "done"
    /\ UNCHANGED <<accounts, account_i, vservers, vps_data, fetched, readLog,
                   exceptFetch>>

FetchInit ==
    /\ MonitorAtRest
    /\ ClientAtRest
    /\ SequenceAtRest
    /\ ReaderAtRest
    /\ PollAtRest
    /\ TorrentAtRest
    /\ VertexAtRest
    /\ MaskAtRest
    /\ response = None
    /\ accounts \in AccountLists
    /\ fetchPc = "idle"
    /\ account_i = 0
    /\ vservers = <<>>
    /\ vps_data = EmptyMap
    /\ fetched = EmptyMap
    /\ readLog = <<>>

FetchNext ==
    \/ FetchBegin
    \/ NextAccount
    \/ ReadServer
    \/ AccountReturn
    \/ FetchEnd

SpecFetch == FetchInit /\ [][FetchNext]_vars

\* ---- QBRSSClient: get_qb_info, _find_downloader, set_downloader_enabled ---

\* What a downloader id, a host name or the key of a lookup can be.
Names == {"a", "b"}

\* A client URL: with or without "scheme://", the host, with or without
\* ":port".
Url(scheme, host, port) == [scheme |-> scheme, host |-> host, port |-> port]

UrlValues ==
    {None, Some(Url(TRUE, "a", TRUE)), Some(Url(FALSE, "a", TRUE)),
     Some(Url(FALSE, "a", FALSE)), Some(Url(TRUE, "b", FALSE))}

\* A JSON object of the download manager: the keys read by the client, None
\* for a missing one.  ok and detail are the keys of the error object of
\* line 195.
Obj(id, uid, clientUrl, url, enable, ok, detail) ==
    [id |-> id, _id |-> uid, clientUrl |-> clientUrl, url |-> url,
     enable |-> enable, ok |-> ok, detail |-> detail]

Downloaders ==
    {Obj(id, None, cu, None, Some(FALSE), None, None) :
        id \in {None} \cup {Some(n) : n \in Names}, cu \in UrlValues}
      \cup {Obj(None, Some("a"), None, None, Some(TRUE), None, None),
            Obj(None, None, None, Some(Url(TRUE, "a", TRUE)), None, None,
                None)}

DownloaderLists == UNION {[1..n -> Downloaders] : n \in 0..MaxDownloaders}

\* The body of an answer to GET /api/downloader/list: a JSON array, an
\* object (whose "data" is a list or not), something else; or an exception
\* out of _http_get_json.  data is the list, None when there is none.
ListReply(shape, data) == [shape |-> shape, data |-> data]

ListReplies ==
    {ListReply(shape, Some(l)) :
        shape \in {"array", "object"}, l \in DownloaderLists}
      \cup {ListReply(shape, None) : shape \in {"object", "other", "raise"}}

\* Lines 193-194: dlist.get("data") if isinstance(dlist, dict) else dlist,
\* None standing for whatever is not a list.
DownloadersOf(reply) ==
    IF reply.shape \in {"array", "object"} THEN reply.data ELSE None

\* _extract_host, lines 158-170: the hostname of a URL with a scheme, else
\* the text before the ":" of the port, else None.
extract_host(client_url) ==
    IF client_url.scheme THEN Some(client_url.host)
    ELSE IF client_url.port THEN Some(client_url.host)
    ELSE None

\* d.get("clientUrl") or d.get("url") or "", then the host of lines 184-185.
HostOf(d) ==
    LET cu == IF d.clientUrl # None THEN d.clientUrl ELSE d.url
    IN IF cu = None THEN None ELSE extract_host(cu[1])

IdMatch(d, k) == d.id = Some(k) \/ d._id = Some(k)

HostMatch(d, k) == HostOf(d) # None /\ HostOf(d) = Some(k)

First(S) == CHOOSE i \in S : \A j \in S : i <= j

\* One pass returning the first downloader that matches in either way.
find_downloader_OnePass(downloaders, k) ==
    LET hits == {i \in DOMAIN downloaders :
                    IdMatch(downloaders[i], k) \/ HostMatch(downloaders[i], k)}
    IN IF hits # {} THEN Some(downloaders[First(hits)]) ELSE None

\* _find_downloader, lines 172-188: the loop over the ids, then the loop
\* over the hosts.
find_downloader(downloaders, k) ==
    LET ids == {i \in DOMAIN downloaders : IdMatch(downloaders[i], k)}
        hosts == {i \in DOMAIN downloaders : HostMatch(downloaders[i], k)}
    IN IF ids # {} THEN Some(downloaders[First(ids)])
       ELSE IF hosts # {} THEN Some(downloaders[First(hosts)])
       ELSE None

\* Line 195: what get_qb_info returns when the answer holds no list.
Unexpected ==
    Obj(None, None, None, None, None, Some(FALSE), Some("Unexpected"))

\* get_qb_info, lines 190-200, the listing having returned.
get_qb_info(reply, k) ==
    IF DownloadersOf(reply) = None THEN Some(Unexpected)
    ELSE find_downloader(DownloadersOf(reply)[1], k)

\* What set_downloader_enabled returns.
Result(ok, detail) == [ok |-> ok, detail |-> detail]

\* A caller enters set_downloader_enabled(ip_or_id, enabled), lines 215-224.
SetEnabledCall ==
    /\ vxPc \in {"idle", "done", "raised"}
    /\ key' \in Names
    /\ enabled' \in BOOLEAN
    /\ dlist' = None
    /\ target' = None
    /\ posted' = <<>>
    /\ \E base \in BOOLEAN :
          IF base THEN vxPc' = "list" /\ vx_result' = None
          ELSE /\ vxPc' = "done"
               /\ vx_result' = Some(Result(FALSE, "base url not configured"))
    /\ UNCHANGED exceptVertex

\* Lines 226-228: get_qb_info, and the return when it found nothing.
GetQbInfo ==
    /\ vxPc = "list"
    /\ \E reply \in ListReplies :
          /\ dlist' = Some(reply)
          /\ IF reply.shape = "raise"
             THEN vxPc' = "raised" /\ UNCHANGED <<target, vx_result>>
             ELSE /\ target' = get_qb_info(reply, key)
                  /\ IF target' = None
                     THEN /\ vxPc' = "done"
                          /\ vx_result' =
                               Some(Result(FALSE, "Downloader not found"))
                     ELSE vxPc' = "modify" /\ UNCHANGED vx_result
    /\ UNCHANGED <<key, enabled, posted, exceptVertex>>

\* Lines 230-237: the copy of target with "enable" set is posted.
Modify ==
    /\ vxPc = "modify"
    /\ posted' = Append(posted, [target[1] EXCEPT !.enable = Some(enabled)])
    /\ \E r \in Results : vxPc' = IF r = "ok" THEN "verify" ELSE "raised"
    /\ UNCHANGED <<key, enabled, dlist, target, vx_result, exceptVertex>>

\* Lines 240-245: the list is fetched again; without a list in the answer
\* the search of line 242 raises.
Verify ==
    /\ vxPc = "verify"
    /\ \E reply \in {dlist[1], ListReply("array", Some(<<>>)),
                     ListReply("object", None), ListReply("raise", None)} :
          IF DownloadersOf(reply) = None
          THEN vxPc' = "raised" /\ UNCHANGED vx_result
          ELSE vxPc' = "done" /\ vx_result' = Some(Result(TRUE, "verified"))
    /\ UNCHANGED <<key, enabled, dlist, target, posted, exceptVertex>>

VertexInit ==
    /\ MonitorAtRest
    /\ ClientAtRest
    /\ SequenceAtRest
    /\ ReaderAtRest
    /\ PollAtRest
    /\ TorrentAtRest
    /\ MaskAtRest
    /\ FetchAtRest
    /\ VertexAtRest
    /\ response = None

VertexNext ==
    \/ SetEnabledCall
    \/ GetQbInfo
    \/ Modify
    \/ Verify

SpecVertex == VertexInit /\ [][VertexNext]_vars

\* ---- QBittorrentClient: stop_report_delete_all_except_categories ----------

\* The categories a torrent can have ("" for none) and the states the
\* client reports, two of them download-like.
Categories == {"", "keep", "tmp"}

TorrentStates == {"downloading", "queuedDL", "uploading", "stoppedDL"}

\* qb_client.py lines 66-73.
download_like_states ==
    {"downloading", "stalledDL", "queuedDL", "metaDL", "checkingDL",
     "allocating"}

\* One torrent: its hash, category and state, and how often the client was
\* told to reannounce it.
Torrent(hash, category, state, announced) ==
    [hash |-> hash, category |-> category, state |-> state,
     announced |-> announced]

\* The lists of torrents the client can hold, the i-th one with hash i.
TorrentLists ==
    UNION {{[i \in 1..n |-> Torrent(i, attrs[i][1], attrs[i][2], 0)] :
              attrs \in [1..n -> Categories \X TorrentStates]} :
           n \in 0..MaxTorrents}

\* The values of the exclude_categories argument: one string, a list of
\* strings (ncControl.py passes the list of parse_except_categories), None.
ExcludeArg(kind, items) == [kind |-> kind, items |-> items]

ExcludeArgs ==
    {ExcludeArg("str", <<"keep">>), ExcludeArg("none", <<>>)}
      \cup {ExcludeArg("list", l) :
              l \in {<<>>, <<"keep">>, <<"tmp">>, <<"keep", "tmp">>,
                     <<"tmp", "tmp">>}}

\* Lines 54-57: a string is one category, anything else is made a set.
ExcludeSetOf(arg) ==
    IF arg.kind = "str" THEN {arg.items[1]}
    ELSE {arg.items[i] : i \in DOMAIN arg.items}

\* A selection that does not look at the category.
Selected_AnyCategory(t, excluded) == t.state \in download_like_states

\* Lines 75-85: the tests a torrent passes to be selected.
Selected(t, excluded) ==
    /\ t.category \notin excluded
    /\ t.state \in download_like_states

\* Lines 74-86: the hashes of the selected torrents, in the order listed.
RECURSIVE SelectHashes(_, _)
SelectHashes(list, excluded) ==
    IF list = <<>> THEN <<>>
    ELSE (IF Selected(Head(list), excluded) THEN <<Head(list).hash>>
          ELSE <<>>) \o SelectHashes(Tail(list), excluded)

\* One request to the torrent client: its name, the hashes it names and
\* whether it returned or raised.
Request(call, hashSet, result) ==
    [call |-> call, hashes |-> hashSet, result |-> result]

HashSet(list) == {list[i] : i \in DOMAIN list}

\* The torrents after the client has carried out torrents_reannounce.
Reannounced(list, hs) ==
    [i \in DOMAIN list |->
        IF list[i].hash \in hs
        THEN [list[i] EXCEPT !.announced = 1] ELSE list[i]]

\* The torrents after the client has carried out torrents_stop.
Stopped(list, hs) ==
    [i \in DOMAIN list |->
        IF list[i].hash \in hs
        THEN [list[i] EXCEPT !.state = "stoppedDL"] ELSE list[i]]

\* A caller enters the method, lines 40-57.
StopReportCall ==
    /\ qbPc \in {"idle", "done", "raised"}
    /\ \E arg \in ExcludeArgs : exclude_set' = ExcludeSetOf(arg)
    /\ wait_seconds' \in {0, 5}
    /\ hashes' = <<>>
    /\ qbLog' = <<>>
    /\ qb_return' = None
    /\ torrents_before' = torrents
    /\ qbPc' = "info"
    /\ UNCHANGED <<torrents, exceptTorrent>>

\* Lines 59-90: the listing, the selection, and the return of 0 when
\* nothing is selected.  An exception of the listing leaves the method.
TorrentsInfo ==
    /\ qbPc = "info"
    /\ \E r \in Results :
          /\ qbLog' = Append(qbLog, Request("torrents_info", {}, r))
          /\ IF r = "raise"
             THEN qbPc' = "raised" /\ UNCHANGED <<hashes, qb_return>>
             ELSE /\ hashes' = SelectHashes(torrents, exclude_set)
                  /\ IF hashes' = <<>>
                     THEN qbPc' = "done" /\ qb_return' = Some(0)
                     ELSE qbPc' = "reannounce" /\ UNCHANGED qb_return
    /\ UNCHANGED <<torrents, exclude_set, wait_seconds, torrents_before,
                   exceptTorrent>>

\* Lines 94-105: torrents_reannounce, its exception logged, then
\* time.sleep(wait_seconds) for a positive wait_seconds.
Reannounce ==
    /\ qbPc = "reannounce"
    /\ \E r \in Results :
          /\ qbLog' =
               Append(qbLog,
                      Request("torrents_reannounce", HashSet(hashes), r))
                 \o (IF wait_seconds > 0
                     THEN <<Request("time.sleep", {}, "ok")>> ELSE <<>>)
          /\ torrents' = IF r = "ok"
                         THEN Reannounced(torrents, HashSet(hashes))
                         ELSE torrents
    /\ qbPc' = "stop"
    /\ UNCHANGED <<exclude_set, wait_seconds, hashes, qb_return,
                   torrents_before, exceptTorrent>>

\* Lines 107-116: torrents_stop, its exception logged, return len(hashes).
Stop ==
    /\ qbPc = "stop"
    /\ \E r \in Results :
          /\ qbLog' =
               Append(qbLog, Request("torrents_stop", HashSet(hashes), r))
          /\ torrents' = IF r = "ok" THEN Stopped(torrents, HashSet(hashes))
                         ELSE torrents
    /\ qb_return' = Some(Len(hashes))
    /\ qbPc' = "done"
    /\ UNCHANGED <<exclude_set, wait_seconds, hashes, torrents_before,
                   exceptTorrent>>

TorrentInit ==
    /\ MonitorAtRest
    /\ ClientAtRest
    /\ SequenceAtRest
    /\ ReaderAtRest
    /\ PollAtRest
    /\ VertexAtRest
    /\ MaskAtRest
    /\ FetchAtRest
    /\ response = None
    /\ torrents \in TorrentLists
    /\ exclude_set = {}
    /\ wait_seconds = 0
    /\ qbPc = "idle"
    /\ hashes = <<>>
    /\ qbLog = <<>>
    /\ qb_return = None
    /\ torrents_before = <<>>

TorrentNext ==
    \/ StopReportCall
    \/ TorrentsInfo
    \/ Reannounce
    \/ Stop

SpecTorrent == TorrentInit /\ [][TorrentNext]_vars

\* ---- telegram_poll_loop ----------------------------------------------------

\* What an update carries: no message, a message of another chat, or a
\* message of the default chat with its text.
UpdateKinds ==
    {[message |-> FALSE, chat |-> "", text |-> ""],
     [message |-> TRUE, chat |-> "other", text |-> "/status"]}
      \cup {[message |-> TRUE, chat |-> "tg_chat_id", text |-> t] :
              t \in {"", "/status", "/version", "hello"}}

TgUpdate(update_id, kind) == [update_id |-> update_id, kind |-> kind]

\* getUpdates with an offset: the bot API forgets the updates below it and
\* returns the others, oldest first.
NotConfirmed(queue, offset) ==
    SelectSeq(queue, LAMBDA u : u.update_id >= offset)

\* Lines 259-285: what the loop body does with one update.
Dispatch(kind) ==
    IF ~kind.message THEN "no message"
    ELSE IF ~tg_chat_id \/ kind.chat # "tg_chat_id" THEN "other chat"
    ELSE IF kind.text = "" THEN "no text"
    ELSE IF kind.text = "/status" THEN "handle_tg_status_command"
    ELSE IF kind.text = "/version" THEN "handle_tg_version_command"
    ELSE "help"

\* The cursor moved only once the update has been handled.
OffsetInBody_Late(offset, update_id, result) ==
    IF result = "raise" THEN offset ELSE update_id

\* Line 257: the first statement of the loop body sets the cursor.
OffsetInBody(offset, update_id, result) == update_id

\* One run of the loop body: for which update, in the answer to which
\* poll, with how many updates behind it, what it did and how it ended.
Handled(update_id, poll, behind, did, result) ==
    [update_id |-> update_id, poll |-> poll, behind |-> behind, did |-> did,
     result |-> result]

\* The bot receives an update; the ids are consecutive.
UpdateArrives ==
    /\ pollPc # "off"
    /\ tgNext <= MaxUpdates
    /\ \E kind \in UpdateKinds :
          tgQueue' = Append(tgQueue, TgUpdate(tgNext, kind))
    /\ tgNext' = tgNext + 1
    /\ UNCHANGED <<tg_update_offset, batch, pollPc, polls, pollLog,
                   exceptPoll>>

\* Lines 244-255: getUpdates with offset = tg_update_offset + 1.  A failed
\* request (lines 286-288, after time.sleep(5)) and an answer other than
\* 200 (line 254) lead to the next request.
GetUpdates ==
    /\ pollPc = "poll"
    /\ \E answer \in {"exception", "not 200", "ok"} :
          IF answer = "ok"
          THEN /\ tgQueue' = NotConfirmed(tgQueue, tg_update_offset + 1)
               /\ batch' = tgQueue'
               /\ pollPc' = IF batch' = <<>> THEN "poll" ELSE "loop"
               /\ polls' = IF batch' = <<>> THEN polls ELSE polls + 1
          ELSE UNCHANGED <<tgQueue, batch, pollPc, polls>>
    /\ UNCHANGED <<tg_update_offset, tgNext, pollLog, exceptPoll>>

\* Lines 256-285 for one update of the answer, and lines 289-291 when the
\* body raises: the rest of the answer is dropped.
HandleUpdate ==
    /\ pollPc = "loop"
    /\ LET update == Head(batch)
           did == Dispatch(update.kind)
       IN \E result \in IF update.kind.message THEN Results ELSE {"ok"} :
            /\ tg_update_offset' =
                 OffsetInBody(tg_update_offset, update.update_id, result)
            /\ pollLog' = Append(pollLog,
                                 Handled(update.update_id, polls,
                                         Len(batch) - 1, did, result))
            /\ batch' = IF result = "raise" THEN <<>> ELSE Tail(batch)
            /\ pollPc' = IF batch' = <<>> THEN "poll" ELSE "loop"
    /\ UNCHANGED <<tgQueue, tgNext, polls, exceptPoll>>

\* Lines 74-80: the polling thread is started when a bot token is set.
PollInit ==
    /\ MonitorInit
    /\ ~qb_rss
    /\ tg_bot_token
    /\ ClientAtRest
    /\ SequenceAtRest
    /\ ReaderAtRest
    /\ VertexAtRest
    /\ TorrentAtRest
    /\ MaskAtRest
    /\ FetchAtRest
    /\ response = None
    /\ tg_update_offset = 0
    /\ tgQueue = <<>>
    /\ tgNext = 1
    /\ batch = <<>>
    /\ pollPc = "poll"
    /\ polls = 0
    /\ pollLog = <<>>

PollNext ==
    \/ UpdateArrives
    \/ GetUpdates
    \/ HandleUpdate

SpecPoll == PollInit /\ [][PollNext]_vars

\* ---- the cycle and a handler competing for the lock ------------------------

\* The handlers that read the status store under the lock: webhook
\* (line 306), /health (319), /api/status (350) and the bot's status
\* command (189), the last one with a bot configured.
Readers ==
    {"webhook", "health", "api_status"}
      \cup (IF tg_bot_token /\ tg_chat_id THEN {"tg_status"} ELSE {})

\* A handler reaches its "with self.lock".
ReaderArrives ==
    /\ readerPc = "idle"
    /\ reader' \in Readers
    /\ readerPc' = "waiting"
    /\ blockedBy' = IF lock = "free" THEN "" ELSE lock
    /\ UNCHANGED <<lock, exceptReader>>

\* The handler gets the lock.
ReaderAcquires ==
    /\ readerPc = "waiting"
    /\ lock = "free"
    /\ lock' = "reader"
    /\ readerPc' = "locked"
    /\ UNCHANGED <<reader, blockedBy, exceptReader>>

\* The handler has copied what it needs and leaves the block.
ReaderReleases ==
    /\ readerPc = "locked"
    /\ lock' = "free"
    /\ readerPc' = "idle"
    /\ UNCHANGED <<reader, blockedBy, exceptReader>>

\* The monitor with the bot configured, so that all four handlers exist.
LiveInit == Init /\ tg_bot_token /\ tg_chat_id

LiveNext ==
    \/ EnterCycle
    \/ LeaveCycle
    \/ ReaderArrives
    \/ ReaderAcquires
    \/ ReaderReleases

\* Every external call made inside the critical section returns or raises,
\* so a cycle that holds the lock reaches its exit; a handler blocked on the
\* lock is woken when the lock is released, and the collection loop then
\* sleeps for 300 seconds before it asks for the lock again.
SpecLive ==
    /\ LiveInit
    /\ [][LiveNext]_vars
    /\ WF_vars(LeaveCycle)
    /\ SF_vars(ReaderAcquires)
    /\ WF_vars(ReaderReleases)

\* ---- claims --------------------------------------------------------------

\* A reconciliation cycle has ended, by the commit or by an exception.
CycleEnded == pc = "sleep" /\ outcome \in {"committed", "aborted"}

\* get_user_info returned a complete binding for ip in this cycle.
Resolved(ip) ==
    ip \in DOMAIN responses /\ responses[ip].user_info = "resolved"

\* The committed previous flag of ip and its flag in the new snapshot.
WasThenIs(ip, was, is) ==
    /\ ip \in DOMAIN new_data
    /\ OldThrottled(old_data, ip) = Some(was)
    /\ new_data[ip].trafficThrottled = is

CurrentStart(ip) ==
    IF ip \in DOMAIN throttle_meta THEN throttle_meta[ip].current_start
    ELSE None

\* C1 as stated: after a cycle, every IP that went from not-throttled
\* (committed) to throttled (new snapshot) has current_start = now and had
\* the disable sequence invoked exactly once.
C1_Original ==
    CycleEnded =>
      \A ip \in IPs :
        WasThenIs(ip, FALSE, TRUE) =>
          CurrentStart(ip) = Some(now) /\ disableCalls[ip] = 1

\* C1 amended: the same, for the IPs whose downloader binding the cycle
\* resolved (url, username and password all present).
C1_FalseToTrueOpensEpisode ==
    CycleEnded =>
      \A ip \in IPs :
        (WasThenIs(ip, FALSE, TRUE) /\ Resolved(ip)) =>
          CurrentStart(ip) = Some(now) /\ disableCalls[ip] = 1

C1_Witness ==
    /\ CycleEnded
    /\ \E ip \in IPs :
          /\ WasThenIs(ip, FALSE, TRUE)
          /\ Resolved(ip)
          /\ disableCalls[ip] = 1
          /\ CurrentStart(ip) = Some(now)

\* d hundredths of an hour is the interval of delta periods rounded to two
\* decimals: no other hundredth is nearer to it.
IsRounded(d, delta) ==
    LET diff == d * SecondsPerHour - 100 * delta * PeriodSeconds
    IN 2 * (IF diff < 0 THEN 0 - diff ELSE diff) <= SecondsPerHour

\* The metadata of ip records the episode [start, end] as the last one.
EpisodeClosed(ip, start, end) ==
    /\ ip \in DOMAIN throttle_meta
    /\ throttle_meta[ip].last_start = Some(start)
    /\ throttle_meta[ip].last_end = Some(end)
    /\ throttle_meta[ip].last_duration_hours # None
    /\ IsRounded(throttle_meta[ip].last_duration_hours[1], end - start)
    /\ throttle_meta[ip].current_start = None

OpenBefore(ip) ==
    ip \in DOMAIN old_meta /\ old_meta[ip].current_start # None

\* C2 as stated: after a cycle, every IP that went from throttled to
\* not-throttled with an open episode has last_start = the old
\* current_start, last_end = now, last_duration_hours = the rounded
\* difference, current_start = None, and the enable sequence invoked once.
C2_Original ==
    CycleEnded =>
      \A ip \in IPs :
        (WasThenIs(ip, TRUE, FALSE) /\ OpenBefore(ip)) =>
          /\ EpisodeClosed(ip, old_meta[ip].current_start[1], now)
          /\ enableCalls[ip] = 1

\* C2 amended: the same, for the IPs whose downloader binding the cycle
\* resolved.
C2_TrueToFalseClosesEpisode ==
    CycleEnded =>
      \A ip \in IPs :
        (WasThenIs(ip, TRUE, FALSE) /\ OpenBefore(ip) /\ Resolved(ip)) =>
          /\ EpisodeClosed(ip, old_meta[ip].current_start[1], now)
          /\ enableCalls[ip] = 1

\* An episode that lasted two periods (0.1666.. hours) has been closed.
C2_Witness ==
    /\ CycleEnded
    /\ \E ip \in IPs :
          /\ WasThenIs(ip, TRUE, FALSE)
          /\ OpenBefore(ip)
          /\ Resolved(ip)
          /\ now - old_meta[ip].current_start[1] = 2
          /\ EpisodeClosed(ip, old_meta[ip].current_start[1], now)
          /\ enableCalls[ip] = 1

\* C3 as stated, its last clause: over any sequence of cycles, no change of
\* an IP's flag between two consecutive fetched snapshots has its matching
\* sequence dispatched more than once.
C3_NoTransitionDispatchedTwice ==
    \A ip \in transition : dispatches[ip] <= 1

\* C4 as stated: between cycles, for every IP with a metadata entry,
\* current_start is non-null iff the latest known status of the IP is
\* throttled (an episode closed by a later observation of not-throttled
\* has a latest known status of not-throttled).
C4_CurrentStartIffThrottled ==
    pc = "sleep" =>
      \A ip \in DOMAIN throttle_meta :
        (throttle_meta[ip].current_start # None)
          <=> (ip \in DOMAIN lastKnown /\ lastKnown[ip])

NoSideEffects ==
    \A ip \in IPs :
        enableCalls[ip] = 0 /\ disableCalls[ip] = 0 /\ notifyCalls[ip] = 0

\* C5 as stated: a cycle run with the snapshot and the downloader responses
\* of the cycle before it causes no enable sequence, no disable sequence
\* and no notification, and leaves throttle_meta as it found it.
C5_SecondRunIdle ==
    (CycleEnded /\ prev_new = Some(new_data) /\ prev_responses = responses)
      => (NoSideEffects /\ throttle_meta = old_meta)

\* A downloader-control call made for ip in this cycle failed.
CallFailed(ip) ==
    /\ ip \in DOMAIN responses
    /\ (responses[ip].user_info = "raise" \/ responses[ip].call = "failed")

\* C6 as stated: when a downloader-control call made for one IP fails, every
\* other IP of the new snapshot is still processed in that cycle and the
\* status map is replaced by the new snapshot at its end.
C6_FailureContained ==
    CycleEnded =>
      \A ip \in IPs :
        CallFailed(ip) =>
          /\ DOMAIN new_data \ {ip} \subseteq DOMAIN responses
          /\ cached_data = new_data

\* C7 as stated: what api_status copies under the lock is the status map
\* and the metadata of one completed cycle: for every IP of the status map,
\* the metadata entry is as the last commit of the status map left it.
C7_ReaderSeesCommittedPair ==
    lock = "api" =>
      \A ip \in DOMAIN cached_data :
        /\ ip \in DOMAIN throttle_meta
        /\ ip \in DOMAIN committed_meta
        /\ throttle_meta[ip] = committed_meta[ip]

FirstObserved(ip) == ip \in DOMAIN new_data /\ ip \notin DOMAIN old_data

\* The first-observation handling of lines 552-567 took place for ip.
TreatedAsFirst(ip) ==
    IF new_data[ip].trafficThrottled
    THEN /\ CurrentStart(ip) = Some(now)
         /\ disableCalls[ip] = 1
         /\ enableCalls[ip] = 0
    ELSE /\ enableCalls[ip] = 1
         /\ disableCalls[ip] = 0

\* C8 as stated: after a cycle, every IP of the new snapshot that was absent
\* from the committed status map got the first-observation handling and no
\* transition notification.
C8_Original ==
    CycleEnded =>
      \A ip \in IPs :
        FirstObserved(ip) => (TreatedAsFirst(ip) /\ notifyCalls[ip] = 0)

\* C8 amended: no such IP gets a transition notification, and those whose
\* downloader binding the cycle resolved get the first-observation handling.
C8_FirstObservation ==
    CycleEnded =>
      \A ip \in IPs :
        FirstObserved(ip) =>
          /\ notifyCalls[ip] = 0
          /\ Resolved(ip) => TreatedAsFirst(ip)

\* Both kinds of first observation in one committed cycle.
C8_Witness ==
    /\ CycleEnded
    /\ outcome = "committed"
    /\ \E ip, other \in IPs :
          /\ FirstObserved(ip) /\ Resolved(ip)
          /\ new_data[ip].trafficThrottled
          /\ TreatedAsFirst(ip)
          /\ FirstObserved(other) /\ Resolved(other)
          /\ ~new_data[other].trafficThrottled
          /\ TreatedAsFirst(other)

FlagUnchanged(ip) ==
    /\ ip \in DOMAIN new_data
    /\ OldThrottled(old_data, ip) = Some(new_data[ip].trafficThrottled)

\* C9: after a cycle, for every IP whose committed flag equals its flag in
\* the new snapshot, neither sequence was invoked, no notification was sent
\* and the metadata entry is the one the cycle found.
C9_UnchangedFlagNoEffect ==
    CycleEnded =>
      \A ip \in IPs :
        FlagUnchanged(ip) =>
          /\ enableCalls[ip] = 0
          /\ disableCalls[ip] = 0
          /\ notifyCalls[ip] = 0
          /\ ip \in DOMAIN old_meta
          /\ ip \in DOMAIN throttle_meta
          /\ throttle_meta[ip] = old_meta[ip]

\* A cycle went through the loop body for an IP that stayed throttled,
\* its binding resolved and its episode open.
C9_Witness ==
    /\ CycleEnded
    /\ \E ip \in IPs :
          /\ FlagUnchanged(ip)
          /\ new_data[ip].trafficThrottled
          /\ Resolved(ip)
          /\ OpenBefore(ip)
          /\ throttle_meta[ip] = old_meta[ip]

\* C10 as stated: at the end of every cycle the status map is the newly
\* fetched snapshot, and every IP observed so far has its metadata entry:
\* the cycle removed no key and every IP of its snapshot has one.
C10_StatusReplacedMetaKept ==
    CycleEnded =>
      /\ cached_data = new_data
      /\ DOMAIN old_meta \subseteq DOMAIN throttle_meta
      /\ DOMAIN new_data \subseteq DOMAIN throttle_meta

\* get_user_info returned a binding with a missing field for ip in this cycle.
Unresolved(ip) ==
    ip \in DOMAIN responses /\ responses[ip].user_info = "unresolved"

\* The metadata entry of ip as the cycle found it (the setdefault entry for
\* an IP that had none).
MetaBefore(ip) == IF ip \in DOMAIN old_meta THEN old_meta[ip] ELSE DefaultMeta

\* Line 548 skipped ip: no sequence, no notification, metadata as found.
SkippedUntouched(ip) ==
    /\ enableCalls[ip] = 0
    /\ disableCalls[ip] = 0
    /\ notifyCalls[ip] = 0
    /\ ip \in DOMAIN throttle_meta
    /\ throttle_meta[ip] = MetaBefore(ip)

\* C11 as stated: after a cycle, for every IP whose binding came back with a
\* missing field, no enable or disable sequence was attempted, no
\* notification was sent, none of current_start, last_start, last_end,
\* last_duration_hours changed, and the status map holds the IP's new status.
C11_UnresolvedSkippedYetCommitted ==
    CycleEnded =>
      \A ip \in IPs :
        Unresolved(ip) =>
          /\ SkippedUntouched(ip)
          /\ ip \in DOMAIN cached_data
          /\ cached_data[ip] = new_data[ip]

\* The three fields describing the last completed episode.
LastFields(meta) ==
    <<meta.last_start, meta.last_end, meta.last_duration_hours>>

AllOrNone(meta) ==
    \/ LastFields(meta) = <<None, None, None>>
    \/ /\ meta.last_start # None
       /\ meta.last_end # None
       /\ meta.last_duration_hours # None

\* C12: in every reachable state the three last-episode fields of every
\* metadata entry are all null or all non-null, and an entry whose
\* last-episode fields differ from those the running (or last) cycle found
\* belongs to an IP that this cycle saw go from throttled to not-throttled,
\* with all three fields written in this cycle: the start of the episode it
\* found open, the cycle's clock reading and a duration.
C12_LastEpisodeFieldsTogether ==
    \A ip \in DOMAIN throttle_meta :
      /\ AllOrNone(throttle_meta[ip])
      /\ LastFields(throttle_meta[ip]) # LastFields(MetaBefore(ip)) =>
           /\ WasThenIs(ip, TRUE, FALSE)
           /\ throttle_meta[ip].last_start = MetaBefore(ip).current_start
           /\ throttle_meta[ip].last_start # None
           /\ throttle_meta[ip].last_end = Some(now)
           /\ throttle_meta[ip].last_duration_hours # None

\* A cycle wrote the three fields for an IP it saw recover, while the entry
\* of another IP still has none of them.
C12_Witness ==
    \E ip, other \in DOMAIN throttle_meta :
      /\ WasThenIs(ip, TRUE, FALSE)
      /\ LastFields(MetaBefore(ip)) = <<None, None, None>>
      /\ throttle_meta[ip].last_start # None
      /\ throttle_meta[ip].last_end = Some(now)
      /\ throttle_meta[ip].last_duration_hours # None
      /\ LastFields(throttle_meta[other]) = <<None, None, None>>

\* The committed previous status of ip is known and differs from the new.
GenuineTransition(ip) ==
    /\ ip \in DOMAIN new_data
    /\ ip \in DOMAIN old_data
    /\ old_data[ip].trafficThrottled # new_data[ip].trafficThrottled

StateName(throttled) == IF throttled THEN "throttled" ELSE "normal"

\* Exactly one message was posted for ip, a state-change message to the
\* default chat naming the old and the new state.
OneNotification(ip) ==
    /\ Len(telegramSent[ip]) = 1
    /\ telegramSent[ip][1].chat_id = "tg_chat_id"
    /\ telegramSent[ip][1].text.kind = "state change"
    /\ telegramSent[ip][1].text.old = StateName(old_data[ip].trafficThrottled)
    /\ telegramSent[ip][1].text.new = StateName(new_data[ip].trafficThrottled)

\* C14 as stated: after a cycle, for every IP whose previous status is known
\* and differs from the new one, exactly one transition notification with
\* the old and the new state was sent.
C14_Original ==
    CycleEnded =>
      \A ip \in IPs : GenuineTransition(ip) => OneNotification(ip)

\* C14 amended: the same, for the IPs whose downloader binding the cycle
\* resolved, when the bot token and the default chat id are configured;
\* whether the enable or disable sequence failed makes no difference.
C14_TransitionNotifiedOnce ==
    CycleEnded =>
      \A ip \in IPs :
        (GenuineTransition(ip) /\ Resolved(ip)
           /\ tg_bot_token /\ tg_chat_id) => OneNotification(ip)

\* One cycle notified a recovery and a throttling, the sequence of one of
\* the two having failed.
C14_Witness ==
    /\ CycleEnded
    /\ tg_bot_token /\ tg_chat_id
    /\ \E ip, other \in IPs :
          /\ GenuineTransition(ip) /\ Resolved(ip)
          /\ new_data[ip].trafficThrottled
          /\ responses[ip].call = "failed"
          /\ OneNotification(ip)
          /\ GenuineTransition(other) /\ Resolved(other)
          /\ ~new_data[other].trafficThrottled
          /\ OneNotification(other)

\* C17 as stated, its first part: the cycle that follows a cycle ended by an
\* exception starts after the 60 seconds of the recovery interval, not after
\* the 300 seconds of the regular period.
C17_FailedCycleShortRecovery ==
    slept.after = "aborted" => slept.seconds = <<60>>

\* ---- claims about QBRSSClient ---------------------------------------------

\* The current call of _http_get_json / _http_post_json is over.
CallDone == httpPc \in {"returned", "raised"}

\* How many requests of one kind the current call has sent.
Sent(req) ==
    Cardinality({i \in DOMAIN requestLog : requestLog[i].req = req})

\* The server rejected every request of the current call.
AlwaysRejected ==
    \A i \in DOMAIN requestLog :
        \/ requestLog[i].reply.status = "raise"
        \/ looks_like_auth_failure(requestLog[i].reply)

\* C13: with username and password configured, a call never logs in more
\* than once nor sends the original request more than twice; and a call
\* that is over, every request of which the server rejected, has logged in
\* exactly once.
C13_OneReloginTwoAttempts ==
    can_reauth =>
      /\ Sent("login") <= 1
      /\ Sent("original") <= 2
      /\ (CallDone /\ AlwaysRejected) => Sent("login") = 1

\* A call that ended after the rejected request, a login answered with an
\* auth-failure body and the rejected second request.
C13_Witness ==
    /\ can_reauth
    /\ CallDone
    /\ AlwaysRejected
    /\ Sent("login") = 1
    /\ Sent("original") = 2

\* ---- claims about the downloader sequences --------------------------------

\* The names of what disable_downloader called itself, in order.
RECURSIVE Steps(_)
Steps(trace) ==
    IF trace = <<>> THEN <<>>
    ELSE IF Head(trace).by = "disable_downloader"
         THEN <<Head(trace).call>> \o Steps(Tail(trace))
         ELSE Steps(Tail(trace))

IsPrefix(short, long) ==
    /\ Len(short) <= Len(long)
    /\ \A i \in DOMAIN short : short[i] = long[i]

Succeeded(name) ==
    \E i \in DOMAIN callTrace :
        callTrace[i].call = name /\ callTrace[i].result = "ok"

Disabling ==
    /\ callTrace # <<>>
    /\ callTrace[1].call = "pause_downloader"

\* C15: a disable sequence calls the download manager's pause for the IP
\* first and connects to the torrent client next whatever the result of
\* that call; with the exclusion list configured the only method it then
\* calls is stop_report_delete_all_except_categories; without it the methods
\* it calls are pause_all, time.sleep(5), delete_all(delete_files=True) in
\* this order, all three when pause_all succeeds.
C15_DisableSequenceOrder ==
    (dlPc \notin {"idle", "enable", "remote"} /\ Disabling) =>
      /\ callTrace[1].arg = dl_ip[1]
      /\ dlPc = "done" => IsPrefix(<<"pause_downloader", "QBittorrentClient">>,
                                   Steps(callTrace))
      /\ IF except_categories
         THEN /\ IsPrefix(Steps(callTrace),
                          <<"pause_downloader", "QBittorrentClient",
                            "stop_report_delete_all_except_categories">>)
              /\ (dlPc = "done" /\ Succeeded("QBittorrentClient")) =>
                    Len(Steps(callTrace)) = 3
         ELSE /\ IsPrefix(Steps(callTrace),
                          <<"pause_downloader", "QBittorrentClient",
                            "pause_all", "time.sleep", "delete_all">>)
              /\ \A i \in DOMAIN callTrace :
                    /\ (callTrace[i].call = "time.sleep"
                          /\ callTrace[i].by = "disable_downloader") =>
                         callTrace[i].arg = "5"
                    /\ callTrace[i].call = "delete_all" =>
                         callTrace[i].arg = "delete_files=True"
              /\ (dlPc = "done" /\ Succeeded("pause_all")) =>
                    Len(Steps(callTrace)) = 5

\* A disable sequence without exclusion list ran to its end although the
\* download manager's pause had failed.
C15_Witness ==
    /\ dlPc = "done"
    /\ ~except_categories
    /\ callTrace[1] =
         Call("disable_downloader", "pause_downloader", dl_ip[1], "raise")
    /\ Steps(callTrace) = <<"pause_downloader", "QBittorrentClient",
                            "pause_all", "time.sleep", "delete_all">>

\* ---- claims about the request handlers -------------------------------------

ApiAnswered == response # None /\ response[1].handler = "api_status"

\* Between cycles: the latest status of ip is throttled, a cycle has opened
\* its episode, and no episode of ip has completed.
MidEpisode(ip) ==
    /\ ip \in DOMAIN cached_data
    /\ cached_data[ip].trafficThrottled
    /\ ip \in DOMAIN throttle_meta
    /\ throttle_meta[ip].current_start # None
    /\ LastFields(throttle_meta[ip]) = <<None, None, None>>

\* d hundredths of an hour is the given number of seconds rounded to two
\* decimals of an hour.
IsRoundedSeconds(d, seconds) ==
    LET diff == d * SecondsPerHour - 100 * seconds
    IN 2 * (IF diff < 0 THEN 0 - diff ELSE diff) <= SecondsPerHour

NoLastEpisode(entry) ==
    /\ entry.lastThrottleStart = None
    /\ entry.lastThrottleRecover = None
    /\ entry.lastThrottleDurationHours = None

\* C16 as stated: the record /api/status returns for a mid-episode IP has a
\* non-null currentThrottleStart, a positive currentThrottleDurationHours
\* and null lastThrottleStart, lastThrottleRecover,
\* lastThrottleDurationHours.
C16_Original ==
    ApiAnswered =>
      \A ip \in DOMAIN response[1].body :
        MidEpisode(ip) =>
          LET entry == response[1].body[ip]
          IN /\ entry.currentThrottleStart # None
             /\ entry.currentThrottleDurationHours # None
             /\ entry.currentThrottleDurationHours[1] > 0
             /\ NoLastEpisode(entry)

\* C16 amended: currentThrottleDurationHours is the time from the start of
\* the episode to the handler's clock reading, in hours rounded to two
\* decimals, which is zero or more.
C16_MidEpisodeRecord ==
    ApiAnswered =>
      \A ip \in DOMAIN response[1].body :
        MidEpisode(ip) =>
          LET entry == response[1].body[ip]
              elapsed == response[1].request.clock
                           - throttle_meta[ip].current_start[1] * PeriodSeconds
          IN /\ entry.currentThrottleStart # None
             /\ entry.currentThrottleDurationHours # None
             /\ entry.currentThrottleDurationHours[1] >= 0
             /\ IsRoundedSeconds(entry.currentThrottleDurationHours[1],
                                 elapsed)
             /\ NoLastEpisode(entry)

\* /api/status answered for an episode opened one period and 24 seconds
\* before: 0.09 hours.
C16_Witness ==
    /\ ApiAnswered
    /\ \E ip \in DOMAIN response[1].body :
          /\ MidEpisode(ip)
          /\ response[1].request.clock
               - throttle_meta[ip].current_start[1] * PeriodSeconds = 324
          /\ response[1].body[ip].currentThrottleDurationHours = Some(9)
          /\ response[1].body[ip].currentThrottleStart # None
          /\ NoLastEpisode(response[1].body[ip])

\* The stored address with its last octet replaced.
Masked(ip) == SubSeq(ip, 1, 3) \o <<"***">>

Answered(handler) == response # None /\ response[1].handler = handler

\* C18: the address in every record of /api/status, in every line of the
\* bot's status summary and in every transition notification is the stored
\* address of the IP with "***" for its last octet; the record a webhook
\* lookup finds is the stored one, address unmasked.
C18_AddressesMasked ==
    /\ Answered("api_status") =>
         \A ip \in DOMAIN response[1].body :
           response[1].body[ip].ipv4IP = Masked(ip)
    /\ Answered("tg_status") =>
         \A i \in DOMAIN response[1].body :
           response[1].body[i].text.kind = "summary" =>
             \A ip \in DOMAIN response[1].body[i].text.lines :
               response[1].body[i].text.lines[ip].ip = Masked(ip)
    /\ \A ip \in IPs :
         \A i \in DOMAIN telegramSent[ip] :
           telegramSent[ip][i].text.ip = Masked(ip)
    /\ (Answered("webhook") /\ response[1].status = 200) =>
         /\ response[1].body.ipv4IP \in DOMAIN cached_data
         /\ response[1].body = cached_data[response[1].body.ipv4IP]

\* The bot's summary lists both addresses after a cycle that notified a
\* transition.
C18_Witness ==
    /\ Answered("tg_status")
    /\ response[1].body # <<>>
    /\ response[1].body[1].text.kind = "summary"
    /\ DOMAIN response[1].body[1].text.lines = IPs
    /\ \A ip \in IPs : response[1].body[1].text.lines[ip].ip = Masked(ip)
    /\ \E ip \in IPs :
          /\ telegramSent[ip] # <<>>
          /\ telegramSent[ip][1].text.ip = Masked(ip)

\* C19: for a string of exactly four parts mask_ip returns the first three
\* parts followed by "***"; it returns every other string as it is.
C19_MaskIp ==
    mask_result # None =>
      IF Len(mask_arg) = 4
      THEN mask_result[1] =
             <<mask_arg[1], mask_arg[2], mask_arg[3], "***">>
      ELSE mask_result[1] = mask_arg

\* mask_ip has masked the string "1.ab.1." of four parts.
C19_Witness ==
    /\ mask_arg = <<"1", "ab", "1", "">>
    /\ mask_result = Some(<<"1", "ab", "1", "***">>)

\* The webhook handler answers in this step.
WebhookAnswers ==
    /\ response = None
    /\ response' # None
    /\ response'[1].handler = "webhook"

\* The lookup was made with the lock acquired and changed neither map.
LookupUnderLock ==
    /\ response'[1].status # 400 => lock = "free"
    /\ UNCHANGED <<cached_data, throttle_meta, lock>>

\* C20 as stated: the webhook answers 400 when the ipv4IP parameter is
\* missing, 404 when the given IP is not a key of the status map, 200 with
\* the stored record {ipv4IP, trafficThrottled} when it is; it reads the map
\* holding the lock and modifies neither the map nor the metadata.
C20_Original ==
    [][WebhookAnswers =>
         LET q == response'[1].request.ipv4IP
         IN /\ q = None => response'[1].status = 400
            /\ (q # None /\ q[1] \notin DOMAIN cached_data) =>
                  response'[1].status = 404
            /\ (q # None /\ q[1] \in DOMAIN cached_data) =>
                  /\ response'[1].status = 200
                  /\ response'[1].body = cached_data[q[1]]
                  /\ response'[1].body.ipv4IP = q[1]
            /\ LookupUnderLock]_vars

\* C20 amended: 400 also when the parameter is the empty string, 404 for
\* the other values that are no key of the status map.
C20_WebhookAnswers ==
    [][WebhookAnswers =>
         LET q == response'[1].request.ipv4IP
             missing == q = None \/ q = Some(<<"">>)
         IN /\ missing => response'[1].status = 400
            /\ (~missing /\ q[1] \notin DOMAIN cached_data) =>
                  response'[1].status = 404
            /\ (~missing /\ q[1] \in DOMAIN cached_data) =>
                  /\ response'[1].status = 200
                  /\ response'[1].body = cached_data[q[1]]
                  /\ response'[1].body.ipv4IP = q[1]
            /\ LookupUnderLock]_vars

\* The webhook has found the record of a throttled IP while the status map
\* lacks the other IP.
C20_Witness ==
    /\ Answered("webhook")
    /\ response[1].status = 200
    /\ response[1].body.trafficThrottled
    /\ response[1].body = cached_data[response[1].request.ipv4IP[1]]
    /\ DOMAIN cached_data # IPs

\* The stepwise cycle ends as LeaveCycle can.
StepwiseAgreesWithWhole ==
    CycleEnded =>
      \E order \in Orders(DOMAIN new_data),
         resp \in [DOMAIN new_data -> GetUserInfoResults(qb_rss)] :
         LET run == RunLoop(old_meta, NothingSent, order, 1, resp,
                            old_data, new_data, now)
         IN /\ throttle_meta = run.meta
            /\ telegramSent = run.sent
            /\ cached_data = IF run.aborted THEN old_data ELSE new_data

\* ---- claims about the snapshot fetch ---------------------------------------

\* The log entries of the servers that were read successfully.
ReadOk == {k \in DOMAIN readLog : readLog[k].read.info = "interface"}

\* How many entries the log has for one server of one account (server ""
\* for the listing of the account).
Entries(i, server) ==
    Cardinality({k \in DOMAIN readLog :
                   readLog[k].account = i /\ readLog[k].server = server})

Listed(i) ==
    \E k \in DOMAIN readLog :
        readLog[k].account = i /\ readLog[k].read.info = "listed"

\* C21: when a fetch is over, every account with credentials was asked for
\* its servers and every server of every account that listed them was read,
\* once each, whatever failed before; and the mapping holds exactly the
\* addresses of the servers read successfully, each with the throttle flag
\* of its server.
C21_FetchSkipsFailures ==
    fetchPc = "done" =>
      /\ \A i \in DOMAIN accounts :
           /\ Entries(i, "") = IF accounts[i].complete THEN 1 ELSE 0
           /\ \A v \in ServersIn(accounts[i].servers) :
                Entries(i, v) = IF Listed(i) THEN 1 ELSE 0
      /\ DOMAIN fetched =
           UNION {StoredIps(readLog[k].read) : k \in ReadOk}
      /\ \A k \in ReadOk :
           \A ip \in StoredIps(readLog[k].read) :
             /\ ip = AddressOf(readLog[k].server)
             /\ fetched[ip] =
                  Payload(ip, readLog[k].read.trafficThrottled = Some(TRUE))

\* A fetch that met a failing account, then a failing server, and read the
\* throttled server that came after them.
C21_Witness ==
    /\ fetchPc = "done"
    /\ Len(readLog) = 4
    /\ readLog[1].read.info = "account_raise"
    /\ readLog[2].read.info = "listed"
    /\ readLog[3].read.info = "raise"
    /\ readLog[4].read.info = "interface"
    /\ readLog[4].read.trafficThrottled = Some(TRUE)
    /\ DOMAIN fetched = {AddressOf(readLog[4].server)}
    /\ fetched[AddressOf(readLog[4].server)].trafficThrottled

\* The login requests of the log that reached the server.
LoginsAnswered ==
    Cardinality({i \in DOMAIN requestLog :
                   /\ requestLog[i].req = "login"
                   /\ requestLog[i].reply.status # "no_opener"})

\* C22 as stated: a client built with an empty cookie and a non-empty
\* username and password has logged in once during the construction, and
\* the construction has completed with a session (an opener) for the
\* requests that follow.
C22_ConstructorLogsIn ==
    (httpPc \in {"idle", "failed"} /\ ~cookie /\ username /\ password_plain)
      => /\ httpPc = "idle"
         /\ opener # "unset"
         /\ LoginsAnswered = 1

\* ---- claims about set_downloader_enabled and _find_downloader --------------

\* The listing of the current call was answered with a list of downloaders.
Listing == dlist # None /\ DownloadersOf(dlist[1]) # None

TheList == DownloadersOf(dlist[1])[1]

Matching(k) ==
    {i \in DOMAIN TheList : IdMatch(TheList[i], k) \/ HostMatch(TheList[i], k)}

\* C23 as stated: every payload posted to modify is an element of the list
\* fetched just before with its enable field set to the requested value and
\* nothing else changed; and when no downloader of the list matches the key
\* the call returns a not-ok result without posting anything.
C23_ModifyPayload ==
    /\ \A n \in DOMAIN posted :
         /\ Listing
         /\ \E i \in DOMAIN TheList :
              posted[n] = [TheList[i] EXCEPT !.enable = Some(enabled)]
    /\ (Listing /\ Matching(key) = {}) =>
         /\ posted = <<>>
         /\ vxPc = "done"
         /\ vx_result # None
         /\ ~vx_result[1].ok

IdMatches == {i \in DOMAIN TheList : IdMatch(TheList[i], key)}

HostMatches == {i \in DOMAIN TheList : HostMatch(TheList[i], key)}

IsFirstOf(i, S) == i \in S /\ \A j \in S : i <= j

\* C24: _find_downloader returns the first downloader of the list whose id
\* or _id equals the key when there is one, whatever matches by host before
\* it; with no such downloader, the first one whose client URL has the key
\* as its host; and None when there is neither.
C24_IdBeforeHost ==
    Listing =>
      /\ \A i \in DOMAIN TheList :
           /\ IsFirstOf(i, IdMatches) => target = Some(TheList[i])
           /\ (IdMatches = {} /\ IsFirstOf(i, HostMatches)) =>
                 target = Some(TheList[i])
      /\ (IdMatches = {} /\ HostMatches = {}) => target = None

\* The downloader found by its id stands behind one that matches by host.
C24_Witness ==
    /\ Listing
    /\ Len(TheList) = 2
    /\ HostMatch(TheList[1], key)
    /\ ~IdMatch(TheList[1], key)
    /\ IdMatch(TheList[2], key)
    /\ TheList[1] # TheList[2]
    /\ target = Some(TheList[2])

\* ---- claims about the torrent client ---------------------------------------

\* The hashes of the torrents the call found in a download-like state with
\* a category outside the exclusion set.
ToStop ==
    {torrents_before[i].hash :
        i \in {i \in DOMAIN torrents_before :
                 /\ torrents_before[i].state
                      \in {"downloading", "stalledDL", "queuedDL", "metaDL",
                           "checkingDL", "allocating"}
                 /\ torrents_before[i].category \notin exclude_set}}

Calls(name) == {n \in DOMAIN qbLog : qbLog[n].call = name}

\* C25: a call that has returned has returned the number of torrents that
\* were download-like with a category outside the exclusion set; when there
\* are any it has sent one torrents_reannounce and then one torrents_stop,
\* both naming exactly these torrents; it has sent nothing else but the
\* listing and no deletion; the torrents are all still there, and every
\* torrent outside the selection is as the call found it.
C25_StopsSelectionOnly ==
    (qbPc = "done" /\ qb_return # None) =>
      /\ qb_return = Some(Cardinality(ToStop))
      /\ \A n \in DOMAIN qbLog :
           qbLog[n].call \in {"torrents_info", "torrents_reannounce",
                              "time.sleep", "torrents_stop"}
      /\ Cardinality(Calls("torrents_reannounce"))
           = (IF ToStop = {} THEN 0 ELSE 1)
      /\ Cardinality(Calls("torrents_stop")) = (IF ToStop = {} THEN 0 ELSE 1)
      /\ \A n \in Calls("torrents_reannounce") \cup Calls("torrents_stop") :
           qbLog[n].hashes = ToStop
      /\ \A n \in Calls("torrents_reannounce"), m \in Calls("torrents_stop") :
           n < m
      /\ DOMAIN torrents = DOMAIN torrents_before
      /\ \A i \in DOMAIN torrents :
           /\ torrents[i].hash = torrents_before[i].hash
           /\ torrents[i].hash \notin ToStop =>
                torrents[i] = torrents_before[i]
           /\ (torrents[i].hash \in ToStop
                 /\ qbLog[Len(qbLog)].result = "ok") =>
                torrents[i].state = "stoppedDL"

\* Of two downloading torrents the call has stopped the one whose category
\* is not excluded.
C25_Witness ==
    /\ qbPc = "done"
    /\ qb_return = Some(1)
    /\ Len(torrents) = 2
    /\ torrents_before[1].state = "downloading"
    /\ torrents_before[2].state = "downloading"
    /\ torrents_before[1].category \in exclude_set
    /\ torrents[1] = torrents_before[1]
    /\ torrents[2].state = "stoppedDL"
    /\ torrents[2].announced = 1

\* ---- claims about the polling loop -----------------------------------------

\* How often the loop body has run for one update.
TimesHandled(log, update_id) ==
    Cardinality({n \in DOMAIN log : log[n].update_id = update_id})

\* C26: no step of the polling loop lowers tg_update_offset, and the loop
\* body never runs a second time for an update, whether or not its first
\* run raised.
C26_CursorMonotone ==
    [][/\ tg_update_offset' >= tg_update_offset
       /\ \A u \in 1..MaxUpdates : TimesHandled(pollLog', u) <= 1]_vars

\* The handling of the first update of an answer raised; the update that
\* came with it was fetched again and handled by the next poll.
C26_Witness ==
    /\ Len(pollLog) = 2
    /\ pollLog[1].update_id = 1
    /\ pollLog[1].result = "raise"
    /\ pollLog[1].poll = 1
    /\ pollLog[1].behind = 1
    /\ pollLog[2].update_id = 2
    /\ pollLog[2].poll = 2
    /\ tg_update_offset = 2
    /\ tgNext = 3

\* ---- claims about the lock --------------------------------------------------

\* C27: the collection loop never sleeps with the lock held, whether the
\* cycle ended by the commit or by an exception, and a handler waiting for
\* the lock eventually acquires it.
C27_LockReleased ==
    /\ [](pc = "sleep" => lock # "cycle")
    /\ (readerPc = "waiting") ~> (readerPc = "locked")

\* A handler that found the lock held by the first cycle holds it now; that
\* cycle ended by an exception (it left metadata and no status map).
C27_Witness ==
    /\ readerPc = "locked"
    /\ lock = "reader"
    /\ blockedBy = "cycle"
    /\ now = 1
    /\ pc = "sleep"
    /\ cached_data = EmptyMap
    /\ throttle_meta # EmptyMap

\* ---- further claims about the reconciliation cycle ---------------------------

\* C28: in every reachable state, during a cycle and after any sequence of
\* committed and aborted cycles, every key of the status map is a key of
\* throttle_meta.
C28_StatusKeysHaveMeta ==
    DOMAIN cached_data \subseteq DOMAIN throttle_meta

\* After a committed cycle and an aborted one the status map has one key
\* and throttle_meta has two.
C28_Witness ==
    /\ CycleEnded
    /\ outcome = "aborted"
    /\ now >= 2
    /\ Cardinality(DOMAIN cached_data) = 1
    /\ DOMAIN throttle_meta = IPs
    /\ \E ip \in DOMAIN cached_data : Unresolved(ip) \/ Resolved(ip)

\* ip was in a committed status map before, the status map the cycle found
\* does not hold it, and the new snapshot does.
Reappeared(ip) ==
    /\ ip \in DOMAIN lastKnown
    /\ ip \in DOMAIN old_meta
    /\ ip \notin DOMAIN old_data
    /\ ip \in DOMAIN new_data

\* C29: after a cycle, for every IP that had been dropped from the status
\* map by a committed snapshot, is in the new snapshot and had its binding
\* resolved by the cycle: no notification was sent; last_start, last_end
\* and last_duration_hours are as the cycle found them; reappearing
\* throttled, current_start is the cycle's timestamp and the disable
\* sequence was invoked once; reappearing not-throttled, current_start is as
\* the cycle found it and the enable sequence was invoked once.
C29_ReappearingIsFirst ==
    CycleEnded =>
      \A ip \in IPs :
        (Reappeared(ip) /\ Resolved(ip)) =>
          /\ notifyCalls[ip] = 0
          /\ telegramSent[ip] = <<>>
          /\ LastFields(throttle_meta[ip]) = LastFields(old_meta[ip])
          /\ IF new_data[ip].trafficThrottled
             THEN /\ throttle_meta[ip].current_start = Some(now)
                  /\ disableCalls[ip] = 1
                  /\ enableCalls[ip] = 0
             ELSE /\ throttle_meta[ip].current_start
                       = old_meta[ip].current_start
                  /\ enableCalls[ip] = 1
                  /\ disableCalls[ip] = 0

\* An IP dropped while its episode was open has come back not throttled:
\* the stale current_start is still there.
C29_Witness ==
    /\ CycleEnded
    /\ \E ip \in IPs :
          /\ Reappeared(ip)
          /\ Resolved(ip)
          /\ ~new_data[ip].trafficThrottled
          /\ old_meta[ip].current_start # None
          /\ throttle_meta[ip].current_start = old_meta[ip].current_start
          /\ enableCalls[ip] = 1

CallsOf(name) ==
    {i \in DOMAIN callTrace :
        callTrace[i].by = "disable_downloader" /\ callTrace[i].call = name}

\* The positions where something was deleted or asked to be.
Deletions ==
    {i \in DOMAIN callTrace :
        callTrace[i].call \in {"delete_all", "torrents.delete"}}

\* C31: in a disable sequence without exclusion list every deletion comes
\* after a connection to the torrent client that succeeded and after a
\* pause_all that returned, in this order; when the connection or pause_all
\* has raised, the invocation deletes nothing.
C31_DeleteOnlyAfterPause ==
    (Disabling /\ ~except_categories) =>
      /\ \A d \in Deletions :
            \E c \in CallsOf("QBittorrentClient"), p \in CallsOf("pause_all") :
               /\ c < p
               /\ p < d
               /\ callTrace[c].result = "ok"
               /\ callTrace[p].result = "ok"
      /\ (\E i \in CallsOf("QBittorrentClient") \cup CallsOf("pause_all") :
              callTrace[i].result = "raise") => Deletions = {}
      /\ \A i \in DOMAIN callTrace :
            (callTrace[i].by \in {"QBittorrentClient", "pause_all"}
               /\ callTrace[i].result = "raise") => Deletions = {}

\* A disable sequence without exclusion list has ended: the connection
\* succeeded, pause_all raised in its last request, nothing was deleted.
C31_Witness ==
    /\ dlPc = "done"
    /\ Disabling
    /\ ~except_categories
    /\ \E c \in CallsOf("QBittorrentClient") : callTrace[c].result = "ok"
    /\ \E p \in CallsOf("pause_all") : callTrace[p].result = "raise"
    /\ callTrace[Len(callTrace)] = Call("pause_all", "torrents_stop", "", "raise")
    /\ Deletions = {}
====
